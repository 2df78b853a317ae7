---------------------------- MODULE PagesProofs -----------------------------
(***************************************************************************)
(* What the router makes of a path, for every path: which of the eight     *)
(* pages it has, that a redirection always ends at one of them, and that   *)
(* the goTo of a page's list leads to the page of the row that was         *)
(* clicked.                                                                *)
(***************************************************************************)
EXTENDS Pages, TLAPS, SequenceTheorems

\* The strings; those of the patterns are spelt out, since the provers do not
\* know of any particular string that it is in STRING.
Texts ==
  STRING \cup
    {Empty, "name", "nodes", "node", "hostname", "namespaces", "namespace", "pod",
     "podname", "container", "containername", "freecontainer",
     "pods", "containers", "freecontainers"}
Names == Texts \ {Empty}

\* The paths of the browser's location have at least one part.
Paths == Seq(Texts) \ {<<>>}

\* The pages that the router can show
Views == {RouteOf(p) : p \in {q \in Paths : IsPage(q)}}

-----------------------------------------------------------------------------
(* The patterns *)

\* Comparing one part of a path with one of a pattern
Fits(x, part) == IF part.param THEN x # Empty ELSE x = part.text

LEMMA FixedTexts ==
  /\ Empty \in Texts
  /\ {"name", "nodes", "node", "hostname", "namespaces", "namespace", "pod", "podname",
      "container", "containername", "freecontainer",
      "pods", "containers", "freecontainers"} \subseteq Texts
  /\ "nodes" # Empty /\ "namespaces" # Empty
<1>1. "nodes" # Empty /\ "namespaces" # Empty
  BY Zenon DEF Empty
<1> QED
  BY <1>1 DEF Texts

LEMMA PartFits ==
  /\ \A x, s : Fits(x, Lit(s)) <=> x = s
  /\ \A x, k : Fits(x, Par(k)) <=> x # Empty
BY DEF Fits, Lit, Par

\* Comparing a path with a pattern of one, two, four or six parts
LEMMA MatchOne ==
  ASSUME NEW p \in Paths, NEW a
  PROVE  Matches(p, <<a>>) <=> Len(p) = 1 /\ Fits(p[1], a)
<1> DEFINE pat == <<a>>
<1>1. Len(pat) = 1 /\ pat[1] = a
  OBVIOUS
<1>2. Matches(p, pat) <=> Len(p) = Len(pat) /\ \A i \in 1 .. Len(pat) : Fits(p[i], pat[i])
  BY DEF Matches, Fits
<1>3. ASSUME NEW i \in 1 .. 1 PROVE i = 1
  OBVIOUS
<1> HIDE DEF pat
<1>4. Matches(p, pat) <=> Len(p) = 1 /\ Fits(p[1], a)
  BY <1>1, <1>2, <1>3
<1> QED
  BY <1>4 DEF pat

LEMMA MatchTwo ==
  ASSUME NEW p \in Paths, NEW a, NEW b
  PROVE  Matches(p, <<a, b>>) <=> Len(p) = 2 /\ Fits(p[1], a) /\ Fits(p[2], b)
<1> DEFINE pat == <<a, b>>
<1>1. Len(pat) = 2 /\ pat[1] = a /\ pat[2] = b
  OBVIOUS
<1>2. Matches(p, pat) <=> Len(p) = Len(pat) /\ \A i \in 1 .. Len(pat) : Fits(p[i], pat[i])
  BY DEF Matches, Fits
<1>3. ASSUME NEW i \in 1 .. 2 PROVE i = 1 \/ i = 2
  OBVIOUS
<1> HIDE DEF pat
<1>4. Matches(p, pat) <=> Len(p) = 2 /\ Fits(p[1], a) /\ Fits(p[2], b)
  BY <1>1, <1>2, <1>3
<1> QED
  BY <1>4 DEF pat

LEMMA MatchFour ==
  ASSUME NEW p \in Paths, NEW a, NEW b, NEW c, NEW d
  PROVE  Matches(p, <<a, b, c, d>>) <=> Len(p) = 4 /\ Fits(p[1], a) /\ Fits(p[2], b) /\ Fits(p[3], c) /\ Fits(p[4], d)
<1> DEFINE pat == <<a, b, c, d>>
<1>1. Len(pat) = 4 /\ pat[1] = a /\ pat[2] = b /\ pat[3] = c /\ pat[4] = d
  OBVIOUS
<1>2. Matches(p, pat) <=> Len(p) = Len(pat) /\ \A i \in 1 .. Len(pat) : Fits(p[i], pat[i])
  BY DEF Matches, Fits
<1>3. ASSUME NEW i \in 1 .. 4 PROVE i = 1 \/ i = 2 \/ i = 3 \/ i = 4
  OBVIOUS
<1> HIDE DEF pat
<1>4. Matches(p, pat) <=> Len(p) = 4 /\ Fits(p[1], a) /\ Fits(p[2], b) /\ Fits(p[3], c) /\ Fits(p[4], d)
  BY <1>1, <1>2, <1>3
<1> QED
  BY <1>4 DEF pat

LEMMA MatchSix ==
  ASSUME NEW p \in Paths, NEW a, NEW b, NEW c, NEW d, NEW e, NEW f
  PROVE  Matches(p, <<a, b, c, d, e, f>>) <=>
           /\ Len(p) = 6 /\ Fits(p[1], a) /\ Fits(p[2], b) /\ Fits(p[3], c) /\ Fits(p[4], d)
           /\ Fits(p[5], e) /\ Fits(p[6], f)
<1> DEFINE pat == <<a, b, c, d, e, f>>
<1>1. /\ Len(pat) = 6 /\ pat[1] = a /\ pat[2] = b /\ pat[3] = c
      /\ pat[4] = d /\ pat[5] = e /\ pat[6] = f
  OBVIOUS
<1>2. Matches(p, pat) <=> Len(p) = Len(pat) /\ \A i \in 1 .. Len(pat) : Fits(p[i], pat[i])
  BY DEF Matches, Fits
<1>3. ASSUME NEW i \in 1 .. 6 PROVE i = 1 \/ i = 2 \/ i = 3 \/ i = 4 \/ i = 5 \/ i = 6
  OBVIOUS
<1> HIDE DEF pat
<1>4. Matches(p, pat) <=>
           /\ Len(p) = 6 /\ Fits(p[1], a) /\ Fits(p[2], b) /\ Fits(p[3], c) /\ Fits(p[4], d)
           /\ Fits(p[5], e) /\ Fits(p[6], f)
  BY <1>1, <1>2, <1>3
<1> QED
  BY <1>4 DEF pat

LEMMA EightPages ==
  Controllers = {"clusterUtil", "allNodes", "nodeUtil", "allNamespaces", "namespaceUtil",
                 "podUtil", "podContainerUtil", "freeContainerUtil"}
BY DEF Controllers, Pattern

\* The paths of each page
Cluster(p) == Len(p) = 1 /\ p[1] = Empty
AllNodes(p) == Len(p) = 2 /\ p[1] = "nodes" /\ p[2] = Empty
Node(p) == Len(p) = 2 /\ p[1] = "node" /\ p[2] # Empty
AllNamespaces(p) == Len(p) = 2 /\ p[1] = "namespaces" /\ p[2] = Empty
Namespace(p) == Len(p) = 2 /\ p[1] = "namespace" /\ p[2] # Empty
Pod(p) == Len(p) = 4 /\ p[1] = "namespace" /\ p[2] # Empty /\ p[3] = "pod" /\ p[4] # Empty
Container(p) ==
  /\ Len(p) = 6 /\ p[1] = "namespace" /\ p[2] # Empty /\ p[3] = "pod" /\ p[4] # Empty
  /\ p[5] = "container" /\ p[6] # Empty
FreeContainer(p) ==
  Len(p) = 4 /\ p[1] = "node" /\ p[2] # Empty /\ p[3] = "freecontainer" /\ p[4] # Empty

\* A path belongs to a page exactly as the pattern of the page says.
LEMMA PagePaths ==
  ASSUME NEW p \in Paths
  PROVE  /\ Matches(p, Pattern["clusterUtil"]) <=> Cluster(p)
         /\ Matches(p, Pattern["allNodes"]) <=> AllNodes(p)
         /\ Matches(p, Pattern["nodeUtil"]) <=> Node(p)
         /\ Matches(p, Pattern["allNamespaces"]) <=> AllNamespaces(p)
         /\ Matches(p, Pattern["namespaceUtil"]) <=> Namespace(p)
         /\ Matches(p, Pattern["podUtil"]) <=> Pod(p)
         /\ Matches(p, Pattern["podContainerUtil"]) <=> Container(p)
         /\ Matches(p, Pattern["freeContainerUtil"]) <=> FreeContainer(p)
<1>1. Matches(p, Pattern["clusterUtil"]) <=> Cluster(p)
  <2>1. Pattern["clusterUtil"] = <<Lit(Empty)>>
    BY DEF Pattern
  <2>2. Matches(p, Pattern["clusterUtil"]) <=>
          Len(p) = 1 /\ Fits(p[1], Lit(Empty))
    BY <2>1, MatchOne
  <2> QED
    BY <2>2, PartFits DEF Cluster
<1>2. Matches(p, Pattern["allNodes"]) <=> AllNodes(p)
  <2>1. Pattern["allNodes"] = <<Lit("nodes"), Lit(Empty)>>
    BY DEF Pattern
  <2>2. Matches(p, Pattern["allNodes"]) <=>
          Len(p) = 2 /\ Fits(p[1], Lit("nodes")) /\ Fits(p[2], Lit(Empty))
    BY <2>1, MatchTwo
  <2> QED
    BY <2>2, PartFits DEF AllNodes
<1>3. Matches(p, Pattern["nodeUtil"]) <=> Node(p)
  <2>1. Pattern["nodeUtil"] = <<Lit("node"), Par("name")>>
    BY DEF Pattern
  <2>2. Matches(p, Pattern["nodeUtil"]) <=>
          Len(p) = 2 /\ Fits(p[1], Lit("node")) /\ Fits(p[2], Par("name"))
    BY <2>1, MatchTwo
  <2> QED
    BY <2>2, PartFits DEF Node
<1>4. Matches(p, Pattern["allNamespaces"]) <=> AllNamespaces(p)
  <2>1. Pattern["allNamespaces"] = <<Lit("namespaces"), Lit(Empty)>>
    BY DEF Pattern
  <2>2. Matches(p, Pattern["allNamespaces"]) <=>
          Len(p) = 2 /\ Fits(p[1], Lit("namespaces")) /\ Fits(p[2], Lit(Empty))
    BY <2>1, MatchTwo
  <2> QED
    BY <2>2, PartFits DEF AllNamespaces
<1>5. Matches(p, Pattern["namespaceUtil"]) <=> Namespace(p)
  <2>1. Pattern["namespaceUtil"] = <<Lit("namespace"), Par("name")>>
    BY DEF Pattern
  <2>2. Matches(p, Pattern["namespaceUtil"]) <=>
          Len(p) = 2 /\ Fits(p[1], Lit("namespace")) /\ Fits(p[2], Par("name"))
    BY <2>1, MatchTwo
  <2> QED
    BY <2>2, PartFits DEF Namespace
<1>6. Matches(p, Pattern["podUtil"]) <=> Pod(p)
  <2>1. Pattern["podUtil"] =
          <<Lit("namespace"), Par("namespace"), Lit("pod"), Par("podname")>>
    BY DEF Pattern
  <2>2. Matches(p, Pattern["podUtil"]) <=>
          /\ Len(p) = 4
          /\ Fits(p[1], Lit("namespace"))
          /\ Fits(p[2], Par("namespace"))
          /\ Fits(p[3], Lit("pod"))
          /\ Fits(p[4], Par("podname"))
    BY <2>1, MatchFour
  <2> QED
    BY <2>2, PartFits DEF Pod
<1>7. Matches(p, Pattern["podContainerUtil"]) <=> Container(p)
  <2>1. Pattern["podContainerUtil"] =
          <<Lit("namespace"), Par("namespace"), Lit("pod"), Par("podname"),
            Lit("container"), Par("containername")>>
    BY DEF Pattern
  <2>2. Matches(p, Pattern["podContainerUtil"]) <=>
          /\ Len(p) = 6
          /\ Fits(p[1], Lit("namespace"))
          /\ Fits(p[2], Par("namespace"))
          /\ Fits(p[3], Lit("pod"))
          /\ Fits(p[4], Par("podname"))
          /\ Fits(p[5], Lit("container"))
          /\ Fits(p[6], Par("containername"))
    BY <2>1, MatchSix
  <2> QED
    BY <2>2, PartFits DEF Container
<1>8. Matches(p, Pattern["freeContainerUtil"]) <=> FreeContainer(p)
  <2>1. Pattern["freeContainerUtil"] =
          <<Lit("node"), Par("hostname"), Lit("freecontainer"), Par("containername")>>
    BY DEF Pattern
  <2>2. Matches(p, Pattern["freeContainerUtil"]) <=>
          /\ Len(p) = 4
          /\ Fits(p[1], Lit("node"))
          /\ Fits(p[2], Par("hostname"))
          /\ Fits(p[3], Lit("freecontainer"))
          /\ Fits(p[4], Par("containername"))
    BY <2>1, MatchFour
  <2> QED
    BY <2>2, PartFits DEF FreeContainer
<1> QED
  BY <1>1, <1>2, <1>3, <1>4, <1>5, <1>6, <1>7, <1>8

\* Their lengths and their first parts tell the pages apart.
LEMMA PagesApart ==
  ASSUME NEW p
  PROVE  /\ Cluster(p) =>
            /\ ~AllNodes(p) /\ ~Node(p) /\ ~AllNamespaces(p) /\ ~Namespace(p)
            /\ ~Pod(p) /\ ~Container(p) /\ ~FreeContainer(p)
         /\ AllNodes(p) =>
            /\ ~Node(p) /\ ~AllNamespaces(p) /\ ~Namespace(p) /\ ~Pod(p)
            /\ ~Container(p) /\ ~FreeContainer(p)
         /\ Node(p) =>
            /\ ~AllNamespaces(p) /\ ~Namespace(p) /\ ~Pod(p) /\ ~Container(p)
            /\ ~FreeContainer(p)
         /\ AllNamespaces(p) =>
            /\ ~Namespace(p) /\ ~Pod(p) /\ ~Container(p) /\ ~FreeContainer(p)
         /\ Namespace(p) =>
            /\ ~Pod(p) /\ ~Container(p) /\ ~FreeContainer(p)
         /\ Pod(p) =>
            /\ ~Container(p) /\ ~FreeContainer(p)
         /\ Container(p) =>
            /\ ~FreeContainer(p)
<1>1. /\ Cluster(p) => Len(p) = 1
      /\ AllNodes(p) \/ Node(p) \/ AllNamespaces(p) \/ Namespace(p) => Len(p) = 2
      /\ Pod(p) \/ FreeContainer(p) => Len(p) = 4
      /\ Container(p) => Len(p) = 6
  BY DEF Cluster, AllNodes, Node, AllNamespaces, Namespace, Pod, Container, FreeContainer
<1>2. /\ AllNodes(p) => p[1] = "nodes"
      /\ Node(p) \/ FreeContainer(p) => p[1] = "node"
      /\ AllNamespaces(p) => p[1] = "namespaces"
      /\ Namespace(p) \/ Pod(p) => p[1] = "namespace"
  BY DEF AllNodes, Node, AllNamespaces, Namespace, Pod, FreeContainer
<1>3. Cluster(p) =>
        ~AllNodes(p) /\ ~Node(p) /\ ~AllNamespaces(p) /\ ~Namespace(p) /\
        ~Pod(p) /\ ~Container(p) /\ ~FreeContainer(p)
  BY <1>1
<1>4. AllNodes(p) \/ Node(p) \/ AllNamespaces(p) \/ Namespace(p) =>
        ~Pod(p) /\ ~Container(p) /\ ~FreeContainer(p)
  BY <1>1
<1>5. Container(p) => ~Pod(p) /\ ~FreeContainer(p)
  BY <1>1
<1>6. /\ AllNodes(p) => ~Node(p) /\ ~AllNamespaces(p) /\ ~Namespace(p)
      /\ Node(p) => ~AllNamespaces(p) /\ ~Namespace(p)
      /\ AllNamespaces(p) => ~Namespace(p)
      /\ Pod(p) => ~FreeContainer(p)
  BY <1>2
<1> QED
  BY <1>3, <1>4, <1>5, <1>6

\* No path belongs to two pages, so the order of the routes does not matter.
LEMMA OnePagePerPath ==
  ASSUME NEW p \in Paths, NEW c \in Controllers, NEW d \in Controllers,
         Matches(p, Pattern[c]), Matches(p, Pattern[d])
  PROVE  c = d
<1>1. \A q \in {c, d} :
        /\ q = "clusterUtil" => Cluster(p)
        /\ q = "allNodes" => AllNodes(p)
        /\ q = "nodeUtil" => Node(p)
        /\ q = "allNamespaces" => AllNamespaces(p)
        /\ q = "namespaceUtil" => Namespace(p)
        /\ q = "podUtil" => Pod(p)
        /\ q = "podContainerUtil" => Container(p)
        /\ q = "freeContainerUtil" => FreeContainer(p)
  BY PagePaths
<1> QED
  BY <1>1, PagesApart, EightPages

\* So the router finds the page of a path.
LEMMA RouteIs ==
  ASSUME NEW p \in Paths, NEW c \in Controllers, Matches(p, Pattern[c])
  PROVE  RouteOf(p) = [page |-> c, params |-> Params(p, Pattern[c])]
<1> DEFINE d == CHOOSE q \in Controllers : Matches(p, Pattern[q])
<1>1. d \in Controllers /\ Matches(p, Pattern[d])
  OBVIOUS
<1>2. d = c
  BY <1>1, OnePagePerPath
<1> QED
  BY <1>2 DEF RouteOf

-----------------------------------------------------------------------------
(* Redirections *)

PartsOfPatterns == [param : BOOLEAN, text : Texts]

\* Patterns of one, two, four and six parts as sequences
LEMMA TupleOne ==
  ASSUME NEW S, NEW a \in S
  PROVE  /\ <<a>> \in Seq(S) /\ Len(<<a>>) = 1
         /\ <<a>>[1] = a /\ Last(<<a>>) = a
BY DEF Last

LEMMA TupleTwo ==
  ASSUME NEW S, NEW a \in S, NEW b \in S
  PROVE  /\ <<a, b>> \in Seq(S) /\ Len(<<a, b>>) = 2
         /\ <<a, b>>[1] = a /\ Last(<<a, b>>) = b
BY DEF Last

LEMMA TupleFour ==
  ASSUME NEW S, NEW a \in S, NEW b \in S, NEW c \in S, NEW d \in S
  PROVE  /\ <<a, b, c, d>> \in Seq(S) /\ Len(<<a, b, c, d>>) = 4
         /\ <<a, b, c, d>>[1] = a /\ Last(<<a, b, c, d>>) = d
BY DEF Last

LEMMA TupleSix ==
  ASSUME NEW S, NEW a \in S, NEW b \in S, NEW c \in S, NEW d \in S, NEW e \in S, NEW f \in S
  PROVE  /\ <<a, b, c, d, e, f>> \in Seq(S) /\ Len(<<a, b, c, d, e, f>>) = 6
         /\ <<a, b, c, d, e, f>>[1] = a /\ Last(<<a, b, c, d, e, f>>) = f
BY DEF Last

\* Appending to a path of one part
LEMMA AppendToOne ==
  ASSUME NEW S, NEW s \in Seq(S), Len(s) = 1, NEW x \in S
  PROVE  /\ Append(s, x) \in Seq(S) /\ Append(s, x) # <<>> /\ Len(Append(s, x)) = 2
         /\ Append(s, x)[1] = s[1] /\ Append(s, x)[2] = x
<1> DEFINE t == Append(s, x)
<1>1. /\ t \in Seq(S) /\ Len(t) = Len(s) + 1
      /\ \A i \in 1 .. Len(s) : t[i] = s[i]
      /\ t[Len(s) + 1] = x
  <2>1. t \in Seq(S) BY AppendProperties
  <2>2. Len(t) = Len(s)+1 BY AppendProperties
  <2>3. \A i \in 1 .. Len(s) : t[i] = s[i] BY AppendProperties
  <2>4. t[Len(s) + 1] = x BY AppendProperties
  <2> QED BY <2>1, <2>2, <2>3, <2>4
<1> HIDE DEF t
<1>2. /\ t \in Seq(S) /\ t # <<>> /\ Len(t) = 2 /\ t[1] = s[1] /\ t[2] = x
  BY <1>1
<1> QED
  BY <1>2 DEF t

\* A pattern ends with a slash only if nothing but fixed text precedes it.
LEMMA PatternEnds ==
  ASSUME NEW c \in Controllers
  PROVE  /\ Pattern[c] \in Seq(PartsOfPatterns) /\ Len(Pattern[c]) >= 1
         /\ Last(Pattern[c]) = Lit(Empty) =>
              \/ Len(Pattern[c]) = 1
              \/ /\ Len(Pattern[c]) = 2
                 /\ Pattern[c][1] \in {Lit("nodes"), Lit("namespaces")}
<1>0. \A t \in Texts : Lit(t) \in PartsOfPatterns /\ Par(t) \in PartsOfPatterns
  BY FixedTexts DEF Lit, Par, PartsOfPatterns
<1>1. \A t : Par(t) # Lit(Empty)
  BY DEF Lit, Par
<1> HIDE DEF PartsOfPatterns
<1>2. CASE c = "clusterUtil"
  <2>1. Pattern[c] = <<Lit(Empty)>>
    BY <1>2 DEF Pattern
  <2>2. {Lit(Empty)} \subseteq PartsOfPatterns
    BY <1>0, FixedTexts
  <2>3. Pattern[c] \in Seq(PartsOfPatterns) /\ Len(Pattern[c]) = 1 /\ Last(Pattern[c]) = Lit(Empty)
    BY <2>1, <2>2, TupleOne
  <2> QED
    BY <1>1, <2>3
<1>3. CASE c = "allNodes"
  <2>1. Pattern[c] = <<Lit("nodes"), Lit(Empty)>>
    BY <1>3 DEF Pattern
  <2>2. {Lit("nodes"), Lit(Empty)} \subseteq PartsOfPatterns
    BY <1>0, FixedTexts
  <2>3. Pattern[c] \in Seq(PartsOfPatterns) /\ Len(Pattern[c]) = 2 /\ Last(Pattern[c]) = Lit(Empty)
        /\ Pattern[c][1] = Lit("nodes")
    BY <2>1, <2>2, TupleTwo
  <2> QED
    BY <1>1, <2>3
<1>4. CASE c = "allNamespaces"
  <2>1. Pattern[c] = <<Lit("namespaces"), Lit(Empty)>>
    BY <1>4 DEF Pattern
  <2>2. {Lit("namespaces"), Lit(Empty)} \subseteq PartsOfPatterns
    BY <1>0, FixedTexts
  <2>3. Pattern[c] \in Seq(PartsOfPatterns) /\ Len(Pattern[c]) = 2 /\ Last(Pattern[c]) = Lit(Empty)
        /\ Pattern[c][1] = Lit("namespaces")
    BY <2>1, <2>2, TupleTwo
  <2> QED
    BY <1>1, <2>3
<1>5. CASE c = "nodeUtil"
  <2>1. Pattern[c] = <<Lit("node"), Par("name")>>
    BY <1>5 DEF Pattern
  <2>2. {Lit("node"), Par("name")} \subseteq PartsOfPatterns
    BY <1>0, FixedTexts
  <2>3. Pattern[c] \in Seq(PartsOfPatterns) /\ Len(Pattern[c]) = 2 /\ Last(Pattern[c]) = Par("name")
        /\ Pattern[c][1] = Lit("node")
    BY <2>1, <2>2, TupleTwo
  <2> QED
    BY <1>1, <2>3
<1>6. CASE c = "namespaceUtil"
  <2>1. Pattern[c] = <<Lit("namespace"), Par("name")>>
    BY <1>6 DEF Pattern
  <2>2. {Lit("namespace"), Par("name")} \subseteq PartsOfPatterns
    BY <1>0, FixedTexts
  <2>3. Pattern[c] \in Seq(PartsOfPatterns) /\ Len(Pattern[c]) = 2 /\ Last(Pattern[c]) = Par("name")
        /\ Pattern[c][1] = Lit("namespace")
    BY <2>1, <2>2, TupleTwo
  <2> QED
    BY <1>1, <2>3
<1>7. CASE c = "podUtil"
  <2>1. Pattern[c] = <<Lit("namespace"), Par("namespace"), Lit("pod"), Par("podname")>>
    BY <1>7 DEF Pattern
  <2>2. {Lit("namespace"), Par("namespace"), Lit("pod"), Par("podname")} \subseteq PartsOfPatterns
    BY <1>0, FixedTexts
  <2>3. Pattern[c] \in Seq(PartsOfPatterns) /\ Len(Pattern[c]) = 4 /\ Last(Pattern[c]) = Par("podname")
    BY <2>1, <2>2, TupleFour
  <2> QED
    BY <1>1, <2>3
<1>8. CASE c = "freeContainerUtil"
  <2>1. Pattern[c] = 
          <<Lit("node"), Par("hostname"), Lit("freecontainer"), Par("containername")>>
    BY <1>8 DEF Pattern
  <2>2. {Lit("node"), Par("hostname"), Lit("freecontainer"), Par("containername")} \subseteq PartsOfPatterns
    BY <1>0, FixedTexts
  <2>3. Pattern[c] \in Seq(PartsOfPatterns) /\ Len(Pattern[c]) = 4 /\ Last(Pattern[c]) = Par("containername")
    BY <2>1, <2>2, TupleFour
  <2> QED
    BY <1>1, <2>3
<1>9. CASE c = "podContainerUtil"
  <2>1. Pattern[c] = 
          <<Lit("namespace"), Par("namespace"), Lit("pod"), Par("podname"),
            Lit("container"), Par("containername")>>
    BY <1>9 DEF Pattern
  <2>2. {Lit("namespace"), Par("namespace"), Lit("pod"), Par("podname"),
         Lit("container"), Par("containername")} \subseteq PartsOfPatterns
    BY <1>0, FixedTexts
  <2>3. Pattern[c] \in Seq(PartsOfPatterns) /\ Len(Pattern[c]) = 6 /\ Last(Pattern[c]) = Par("containername")
    BY <2>1, <2>2, TupleSix
  <2> QED
    BY <1>1, <2>3
<1> QED
  BY <1>2, <1>3, <1>4, <1>5, <1>6, <1>7, <1>8, <1>9, EightPages

\* A path with one slash too many loses it.
LEMMA SlashRemoved ==
  ASSUME NEW p \in Paths, NEW pat \in Seq(PartsOfPatterns), Len(pat) >= 1,
         Matches(p, Append(pat, Lit(Empty)))
  PROVE  Last(p) = Empty /\ Front(p) \in Paths /\ Matches(Front(p), pat)
<1> DEFINE slash == Lit(Empty)
           full == Append(pat, slash)
           q == Front(p)
<1>1. slash \in PartsOfPatterns /\ slash.param = FALSE /\ slash.text = Empty
  BY FixedTexts DEF Lit, PartsOfPatterns
<1> HIDE DEF slash
<1>2. /\ Len(full) = Len(pat) + 1
      /\ \A i \in 1 .. Len(pat) : full[i] = pat[i]
      /\ full[Len(pat) + 1] = slash
  BY <1>1, AppendProperties
<1>3. Len(p) = Len(full) /\ \A i \in 1 .. Len(full) : Fits(p[i], full[i])
  BY DEF Matches, Fits, slash
<1> HIDE DEF full
<1>4. Len(pat) \in Nat
  OBVIOUS
<1>5. p \in Seq(Texts) /\ Len(p) = Len(pat) + 1
  BY <1>2, <1>3 DEF Paths
<1>6. Last(p) = Empty
  BY <1>1, <1>2, <1>3, <1>4, <1>5 DEF Last, Fits
<1>7. q \in Seq(Texts) /\ Len(q) = Len(pat) /\ \A i \in 1 .. Len(pat) : q[i] = p[i]
  <2>1. Len(p) - 1 = Len(pat)
    BY <1>4, <1>5
  <2>2. q = SubSeq(p, 1, Len(pat))
    BY <2>1 DEF Front
  <2>3. \A i \in 1 .. Len(pat) : p[i] \in Texts
    BY <1>4, <1>5, ElementOfSeq
  <2> QED
    BY <1>4, <2>2, <2>3, SubSeqProperties
<1> HIDE DEF q
<1>8. \A i \in 1 .. Len(pat) : Fits(q[i], pat[i])
  BY <1>2, <1>3, <1>4, <1>7
<1>9. q # <<>>
  BY <1>7
<1> QED
  BY <1>6, <1>7, <1>8, <1>9 DEF Matches, Fits, Paths, q

\* A path without the slash of its page gets it.
LEMMA SlashAdded ==
  ASSUME NEW p \in Paths, NEW pat \in Seq(PartsOfPatterns), Len(pat) = 2,
         pat[1] \in {Lit("nodes"), Lit("namespaces")}, pat[2] = Lit(Empty),
         Matches(p, Front(pat))
  PROVE  Last(p) # Empty /\ Append(p, Empty) \in Paths /\ Matches(Append(p, Empty), pat)
<1> DEFINE first == Front(pat)
           q == Append(p, Empty)
<1>1. Len(first) = 1 /\ first[1] = pat[1]
  <2>1. \A i \in 1 .. 1 : pat[i] \in PartsOfPatterns
    BY ElementOfSeq
  <2> QED
    BY <2>1, SubSeqProperties DEF Front
<1>2. Len(p) = Len(first) /\ \A i \in 1 .. Len(first) : Fits(p[i], first[i])
  BY DEF Matches, Fits
<1> HIDE DEF first
<1>3. p \in Seq(Texts) /\ Len(p) = 1 /\ Fits(p[1], pat[1])
  BY <1>1, <1>2 DEF Paths
<1>4. p[1] = "nodes" \/ p[1] = "namespaces"
  BY <1>3, PartFits
<1>5. Last(p) # Empty
  BY <1>3, <1>4, FixedTexts DEF Last
<1>6. Empty \in Texts
  BY FixedTexts
<1>7. q \in Seq(Texts) /\ q # <<>> /\ Len(q) = 2 /\ q[1] = p[1] /\ q[2] = Empty
  BY <1>3, <1>6, AppendToOne
<1> HIDE DEF q
<1>8. Fits(q[1], pat[1]) /\ Fits(q[2], pat[2])
  BY <1>3, <1>7, PartFits
<1>9. \A i \in 1 .. 2 : Fits(q[i], pat[i])
  <2>1. ASSUME NEW i \in 1 .. 2 PROVE i = 1 \/ i = 2
    OBVIOUS
  <2> QED
    BY <1>8, <2>1
<1> QED
  BY <1>5, <1>7, <1>9 DEF Matches, Fits, Paths, q

\* Every path leads to a page, whatever the user types: a path that no route
\* matches is redirected once, and the target of that redirection has a route.
THEOREM EveryPathHasAPage ==
  ASSUME NEW p \in Paths
  PROVE  Canonical(p) \in Paths /\ IsPage(Canonical(p))
<1>1. Root \in Paths /\ IsPage(Root)
  <2>1. Root \in Paths /\ Cluster(Root)
    BY FixedTexts DEF Root, Paths, Cluster
  <2>2. Matches(Root, Pattern["clusterUtil"])
    BY <2>1, PagePaths
  <2> QED
    BY <2>1, <2>2, EightPages DEF IsPage
<1>2. CASE IsPage(p)
  BY <1>2 DEF Canonical
<1>3. CASE ~IsPage(p) /\ ~\E c \in Controllers : Matches(p, Toggled(Pattern[c], Lit(Empty)))
  BY <1>1, <1>3 DEF Canonical, RedirectTo
<1>4. ASSUME ~IsPage(p), NEW c \in Controllers, Matches(p, Toggled(Pattern[c], Lit(Empty)))
      PROVE  Canonical(p) \in Paths /\ IsPage(Canonical(p))
  <2> DEFINE pat == Pattern[c]
  <2>1. Canonical(p) = Toggled(p, Empty)
    BY <1>4 DEF Canonical, RedirectTo
  <2>2. CASE Last(pat) # Lit(Empty)
    <3>1. Matches(p, Append(pat, Lit(Empty)))
      BY <1>4, <2>2 DEF Toggled
    <3>2. Last(p) = Empty /\ Front(p) \in Paths /\ Matches(Front(p), pat)
      BY <3>1, PatternEnds, SlashRemoved
    <3> QED
      BY <2>1, <3>2 DEF Toggled, IsPage
  <2>3. CASE Last(pat) = Lit(Empty)
    <3>1. Matches(p, Front(pat))
      BY <1>4, <2>3 DEF Toggled
    <3>2. CASE Len(pat) = 1
      <4>1. Front(pat) = <<>>
        BY <3>2, SubSeqEmpty DEF Front
      <4> QED
        BY <3>1, <4>1 DEF Matches, Paths
    <3>3. CASE Len(pat) = 2 /\ pat[1] \in {Lit("nodes"), Lit("namespaces")}
      <4>1. Last(p) # Empty /\ Append(p, Empty) \in Paths /\ Matches(Append(p, Empty), pat)
        BY <2>3, <3>1, <3>3, PatternEnds, SlashAdded DEF Last
      <4> QED
        BY <2>1, <4>1 DEF Toggled, IsPage
    <3> QED
      BY <2>3, <3>2, <3>3, PatternEnds
  <2> QED
    BY <2>2, <2>3
<1> QED
  BY <1>2, <1>3, <1>4

-----------------------------------------------------------------------------
(* Parameters *)

\* $routeParams of the pages that have parameters
LEMMA NodeRoute ==
  ASSUME NEW p \in Paths, Node(p)
  PROVE  RouteOf(p).page = "nodeUtil" /\ RouteOf(p).params.name = p[2]
<1>1. RouteOf(p) = [page |-> "nodeUtil", params |-> Params(p, Pattern["nodeUtil"])]
  BY PagePaths, RouteIs, EightPages
<1>2. Params(p, Pattern["nodeUtil"]).name = p[2]
  <2>1. Pattern["nodeUtil"] = <<Lit("node"), Par("name")>>
    BY DEF Pattern
  <2> QED
    BY <2>1 DEF Params, Lit, Par
<1> QED
  BY <1>1, <1>2

LEMMA NamespaceRoute ==
  ASSUME NEW p \in Paths, Namespace(p)
  PROVE  RouteOf(p).page = "namespaceUtil" /\ RouteOf(p).params.name = p[2]
<1>1. RouteOf(p) = [page |-> "namespaceUtil", params |-> Params(p, Pattern["namespaceUtil"])]
  BY PagePaths, RouteIs, EightPages
<1>2. Params(p, Pattern["namespaceUtil"]).name = p[2]
  <2>1. Pattern["namespaceUtil"] = <<Lit("namespace"), Par("name")>>
    BY DEF Pattern
  <2> QED
    BY <2>1 DEF Params, Lit, Par
<1> QED
  BY <1>1, <1>2

LEMMA PodRoute ==
  ASSUME NEW p \in Paths, Pod(p)
  PROVE  /\ RouteOf(p).page = "podUtil"
         /\ RouteOf(p).params.namespace = p[2]
         /\ RouteOf(p).params.podname = p[4]
<1>1. RouteOf(p) = [page |-> "podUtil", params |-> Params(p, Pattern["podUtil"])]
  BY PagePaths, RouteIs, EightPages
<1>2. /\ Params(p, Pattern["podUtil"]).namespace = p[2]
      /\ Params(p, Pattern["podUtil"]).podname = p[4]
  <2>1. Pattern["podUtil"] = 
          <<Lit("namespace"), Par("namespace"), Lit("pod"), Par("podname")>>
    BY DEF Pattern
  <2> QED
    BY <2>1 DEF Params, Lit, Par
<1> QED
  BY <1>1, <1>2

LEMMA ContainerRoute ==
  ASSUME NEW p \in Paths, Container(p)
  PROVE  /\ RouteOf(p).page = "podContainerUtil"
         /\ RouteOf(p).params.namespace = p[2]
         /\ RouteOf(p).params.podname = p[4]
         /\ RouteOf(p).params.containername = p[6]
<1>1. RouteOf(p) = [page |-> "podContainerUtil", params |-> Params(p, Pattern["podContainerUtil"])]
  BY PagePaths, RouteIs, EightPages
<1>2. /\ Params(p, Pattern["podContainerUtil"]).namespace = p[2]
      /\ Params(p, Pattern["podContainerUtil"]).podname = p[4]
      /\ Params(p, Pattern["podContainerUtil"]).containername = p[6]
  <2>1. Pattern["podContainerUtil"] = 
          <<Lit("namespace"), Par("namespace"), Lit("pod"), Par("podname"),
            Lit("container"), Par("containername")>>
    BY DEF Pattern
  <2> QED
    BY <2>1 DEF Params, Lit, Par
<1> QED
  BY <1>1, <1>2

LEMMA FreeContainerRoute ==
  ASSUME NEW p \in Paths, FreeContainer(p)
  PROVE  /\ RouteOf(p).page = "freeContainerUtil"
         /\ RouteOf(p).params.hostname = p[2]
         /\ RouteOf(p).params.containername = p[4]
<1>1. RouteOf(p) = [page |-> "freeContainerUtil", params |-> Params(p, Pattern["freeContainerUtil"])]
  BY PagePaths, RouteIs, EightPages
<1>2. /\ Params(p, Pattern["freeContainerUtil"]).hostname = p[2]
      /\ Params(p, Pattern["freeContainerUtil"]).containername = p[4]
  <2>1. Pattern["freeContainerUtil"] = 
          <<Lit("node"), Par("hostname"), Lit("freecontainer"), Par("containername")>>
    BY DEF Pattern
  <2> QED
    BY <2>1 DEF Params, Lit, Par
<1> QED
  BY <1>1, <1>2

\* The parameters of a page are names.
LEMMA ViewParams ==
  ASSUME NEW v \in Views
  PROVE  /\ v.page \in Controllers
         /\ v.page \in {"nodeUtil", "namespaceUtil"} => v.params.name \in Names
         /\ v.page = "podUtil" => v.params.namespace \in Names /\ v.params.podname \in Names
<1>1. PICK p \in Paths : IsPage(p) /\ v = RouteOf(p)
  BY DEF Views
<1>2. PICK c \in Controllers : Matches(p, Pattern[c])
  BY <1>1 DEF IsPage
<1>3. v.page = c
  BY <1>1, <1>2, RouteIs
<1>4. ASSUME NEW i \in 1 .. Len(p), p[i] # Empty
      PROVE  p[i] \in Names
  BY <1>4, ElementOfSeq DEF Paths, Names
<1>5. CASE c = "nodeUtil"
  <2>1. Node(p)
    BY <1>2, <1>5, PagePaths
  <2>2. v.params.name = p[2]
    BY <1>1, <2>1, NodeRoute
  <2>3. p[2] \in Names
    BY <1>4, <2>1 DEF Node
  <2> QED
    BY <1>3, <1>5, <2>2, <2>3
<1>6. CASE c = "namespaceUtil"
  <2>1. Namespace(p)
    BY <1>2, <1>6, PagePaths
  <2>2. v.params.name = p[2]
    BY <1>1, <2>1, NamespaceRoute
  <2>3. p[2] \in Names
    BY <1>4, <2>1 DEF Namespace
  <2> QED
    BY <1>3, <1>6, <2>2, <2>3
<1>7. CASE c = "podUtil"
  <2>1. Pod(p)
    BY <1>2, <1>7, PagePaths
  <2>2. v.params.namespace = p[2] /\ v.params.podname = p[4]
    BY <1>1, <2>1, PodRoute
  <2>3. p[2] \in Names /\ p[4] \in Names
    BY <1>4, <2>1 DEF Pod
  <2> QED
    BY <1>3, <1>7, <2>2, <2>3
<1> QED
  BY <1>3, <1>5, <1>6, <1>7

-----------------------------------------------------------------------------
(* Rows *)

\* A path or link of one, three or five parts, and the name in a row
LEMMA ConcatOne ==
  ASSUME NEW S, NEW a \in S, NEW n \in Seq(S), Len(n) = 1
  PROVE  <<a>> \o n = <<a, n[1]>>
<1> DEFINE t == <<a>>
           u == <<a, n[1]>>
           w == t \o n
<1>1. n[1] \in S
  BY ElementOfSeq
<1>2. t \in Seq(S) /\ Len(t) = 1 /\ t[1] = a
  OBVIOUS
<1>3. u \in Seq(S) /\ Len(u) = 2 /\ u[1] = a /\ u[2] = n[1]
  BY <1>1
<1> HIDE DEF t, u
<1>4. /\ w \in Seq(S)
      /\ Len(w) = Len(t) + Len(n)
      /\ \A i \in 1 .. Len(t) + Len(n) : w[i] = IF i <= Len(t) THEN t[i] ELSE n[i - Len(t)]
  <2>1. t \in Seq(S)
    BY <1>2
  <2> QED
    BY <2>1, ConcatProperties
<1> HIDE DEF w
<1>5. Len(w) = 2
  BY <1>2, <1>4
<1>6. ASSUME NEW i \in 1 .. Len(w) PROVE w[i] = u[i]
  <2>1. i = 1 \/ i = 2
    BY <1>5
  <2>2. w[i] = IF i <= 1 THEN t[i] ELSE n[i - 1]
    BY <1>2, <1>4, <1>5
  <2> QED
    BY <1>2, <1>3, <2>1, <2>2
<1>7. w = u
  BY <1>3, <1>4, <1>5, <1>6, SeqEqual
<1> QED
  BY <1>7 DEF w, t, u

LEMMA ConcatThree ==
  ASSUME NEW S, NEW a \in S, NEW b \in S, NEW c \in S, NEW n \in Seq(S), Len(n) = 1
  PROVE  <<a, b, c>> \o n = <<a, b, c, n[1]>>
<1> DEFINE t == <<a, b, c>>
           u == <<a, b, c, n[1]>>
           w == t \o n
<1>1. n[1] \in S
  BY ElementOfSeq
<1>2. t \in Seq(S) /\ Len(t) = 3 /\ t[1] = a /\ t[2] = b /\ t[3] = c
  OBVIOUS
<1>3. u \in Seq(S) /\ Len(u) = 4 /\ u[1] = a /\ u[2] = b /\ u[3] = c /\ u[4] = n[1]
  BY <1>1
<1> HIDE DEF t, u
<1>4. /\ w \in Seq(S)
      /\ Len(w) = Len(t) + Len(n)
      /\ \A i \in 1 .. Len(t) + Len(n) : w[i] = IF i <= Len(t) THEN t[i] ELSE n[i - Len(t)]
  <2>1. t \in Seq(S)
    BY <1>2
  <2> QED
    BY <2>1, ConcatProperties
<1> HIDE DEF w
<1>5. Len(w) = 4
  BY <1>2, <1>4
<1>6. ASSUME NEW i \in 1 .. Len(w) PROVE w[i] = u[i]
  <2>1. i = 1 \/ i = 2 \/ i = 3 \/ i = 4
    BY <1>5
  <2>2. w[i] = IF i <= 3 THEN t[i] ELSE n[i - 3]
    BY <1>2, <1>4, <1>5
  <2> QED
    BY <1>2, <1>3, <2>1, <2>2
<1>7. w = u
  BY <1>3, <1>4, <1>5, <1>6, SeqEqual
<1> QED
  BY <1>7 DEF w, t, u

LEMMA ConcatFive ==
  ASSUME NEW S, NEW a \in S, NEW b \in S, NEW c \in S, NEW d \in S, NEW e \in S, NEW n \in Seq(S), Len(n) = 1
  PROVE  <<a, b, c, d, e>> \o n = <<a, b, c, d, e, n[1]>>
<1> DEFINE t == <<a, b, c, d, e>>
           u == <<a, b, c, d, e, n[1]>>
           w == t \o n
<1>1. n[1] \in S
  <2>1. 1 \in 1 .. Len(n)
    OBVIOUS
  <2> QED
    BY <2>1, ElementOfSeq
<1>2. t \in Seq(S) /\ Len(t) = 5 /\ t[1] = a /\ t[2] = b /\ t[3] = c /\ t[4] = d /\ t[5] = e
  OBVIOUS
<1>3. u \in Seq(S) /\ Len(u) = 6 /\ u[1] = a /\ u[2] = b /\ u[3] = c /\ u[4] = d /\ u[5] = e /\ u[6] = n[1]
  BY <1>1
<1> HIDE DEF t, u
<1>4. /\ w \in Seq(S)
      /\ Len(w) = Len(t) + Len(n)
      /\ \A i \in 1 .. Len(t) + Len(n) : w[i] = IF i <= Len(t) THEN t[i] ELSE n[i - Len(t)]
  <2>1. t \in Seq(S)
    BY <1>2
  <2> QED
    BY <2>1, ConcatProperties
<1> HIDE DEF w
<1>5. Len(w) = 6
  BY <1>2, <1>4
<1>6. ASSUME NEW i \in 1 .. Len(w) PROVE w[i] = u[i]
  <2>1. i = 1 \/ i = 2 \/ i = 3 \/ i = 4 \/ i = 5 \/ i = 6
    BY <1>5
  <2>2. w[i] = IF i <= 5 THEN t[i] ELSE n[i - 5]
    BY <1>2, <1>4, <1>5
  <2> QED
    BY <1>2, <1>3, <2>1, <2>2
<1>7. w = u
  BY <1>3, <1>4, <1>5, <1>6, SeqEqual
<1> QED
  BY <1>7 DEF w, t, u

\* The links of a page's lists are sequences of texts.
LEMMA PageLists ==
  ASSUME NEW v \in Views
  PROVE  ListLinks(v) \in Seq(Seq(Texts))
<1> DEFINE L == Seq(Texts)
<1>1. \A a \in Texts : <<a>> \in L
  OBVIOUS
<1>2. \A a, b, c \in Texts : <<a, b, c>> \in L
  OBVIOUS
<1>3. \A a, b, c, d, e \in Texts : <<a, b, c, d, e>> \in L
  OBVIOUS
<1> HIDE DEF L
<1>4. \A a \in L : <<a>> \in Seq(L)
  OBVIOUS
<1>5. \A a, b \in L : <<a, b>> \in Seq(L)
  OBVIOUS
<1>6. Names \subseteq Texts
  BY DEF Names
<1>7. CASE v.page \in {"clusterUtil", "allNamespaces"}
  <2>1. ListLinks(v) = <<<<"namespaces">>>>
    BY <1>7 DEF ListLinks
  <2>2. <<"namespaces">> \in L
    BY <1>1, FixedTexts
  <2> QED
    BY <1>4, <2>1, <2>2 DEF L
<1>8. CASE v.page = "allNodes"
  <2>1. ListLinks(v) = <<<<"nodes">>>>
    BY <1>8 DEF ListLinks
  <2>2. <<"nodes">> \in L
    BY <1>1, FixedTexts
  <2> QED
    BY <1>4, <2>1, <2>2 DEF L
<1>9. CASE v.page = "nodeUtil"
  <2> DEFINE a == <<"nodes", v.params.name, "pods">>
             b == <<"nodes", v.params.name, "freecontainers">>
  <2>1. ListLinks(v) = <<a, b>>
    BY <1>9 DEF ListLinks
  <2>2. v.params.name \in Texts
    BY <1>6, <1>9, ViewParams
  <2>3. a \in L /\ b \in L
    BY <1>2, <2>2, FixedTexts
  <2> HIDE DEF a, b
  <2> QED
    BY <1>5, <2>1, <2>3 DEF L
<1>10. CASE v.page = "namespaceUtil"
  <2> DEFINE a == <<"namespaces", v.params.name, "pods">>
  <2>1. ListLinks(v) = <<a>>
    BY <1>10 DEF ListLinks
  <2>2. v.params.name \in Texts
    BY <1>6, <1>10, ViewParams
  <2>3. a \in L
    BY <1>2, <2>2, FixedTexts
  <2> HIDE DEF a
  <2> QED
    BY <1>4, <2>1, <2>3 DEF L
<1>11. CASE v.page = "podUtil"
  <2> DEFINE a == <<"namespaces", v.params.namespace, "pods", v.params.podname, "containers">>
  <2>1. ListLinks(v) = <<a>>
    BY <1>11 DEF ListLinks
  <2>2. v.params.namespace \in Texts /\ v.params.podname \in Texts
    BY <1>6, <1>11, ViewParams
  <2>3. a \in L
    BY <1>3, <2>2, FixedTexts
  <2> HIDE DEF a
  <2> QED
    BY <1>4, <2>1, <2>3 DEF L
<1>12. CASE v.page \in {"podContainerUtil", "freeContainerUtil"}
  BY <1>12 DEF ListLinks
<1> QED
  BY <1>7, <1>8, <1>9, <1>10, <1>11, <1>12, ViewParams, EightPages

\* The page of a row's entity
LEMMA NamespacePage ==
  ASSUME NEW n \in Names
  PROVE  LET p == <<"namespace", n>>
         IN  p \in Paths /\ IsPage(p) /\ Subject(RouteOf(p)) = <<"namespaces", n>>
<1> DEFINE p == <<"namespace", n>>
<1>1. p \in Paths /\ Namespace(p) /\ p[2] = n
  BY FixedTexts DEF Paths, Namespace, Names
<1> HIDE DEF p
<1>2. IsPage(p)
  BY <1>1, PagePaths, EightPages DEF IsPage
<1>3. RouteOf(p).page = "namespaceUtil" /\ RouteOf(p).params.name = n
  BY <1>1, NamespaceRoute
<1>4. Subject(RouteOf(p)) = <<"namespaces", n>>
  BY <1>3 DEF Subject
<1> QED
  BY <1>1, <1>2, <1>4 DEF p

LEMMA NodePage ==
  ASSUME NEW n \in Names
  PROVE  LET p == <<"node", n>>
         IN  p \in Paths /\ IsPage(p) /\ Subject(RouteOf(p)) = <<"nodes", n>>
<1> DEFINE p == <<"node", n>>
<1>1. p \in Paths /\ Node(p) /\ p[2] = n
  BY FixedTexts DEF Paths, Node, Names
<1> HIDE DEF p
<1>2. IsPage(p)
  BY <1>1, PagePaths, EightPages DEF IsPage
<1>3. RouteOf(p).page = "nodeUtil" /\ RouteOf(p).params.name = n
  BY <1>1, NodeRoute
<1>4. Subject(RouteOf(p)) = <<"nodes", n>>
  BY <1>3 DEF Subject
<1> QED
  BY <1>1, <1>2, <1>4 DEF p

LEMMA PodPage ==
  ASSUME NEW n \in Names, NEW m \in Names
  PROVE  LET p == <<"namespace", n, "pod", m>>
         IN  p \in Paths /\ IsPage(p) /\ Subject(RouteOf(p)) = <<"namespaces", n, "pods", m>>
<1> DEFINE p == <<"namespace", n, "pod", m>>
<1>1. p \in Paths /\ Pod(p) /\ p[2] = n /\ p[4] = m
  BY FixedTexts DEF Paths, Pod, Names
<1> HIDE DEF p
<1>2. IsPage(p)
  BY <1>1, PagePaths, EightPages DEF IsPage
<1>3. /\ RouteOf(p).page = "podUtil"
      /\ RouteOf(p).params.namespace = n /\ RouteOf(p).params.podname = m
  BY <1>1, PodRoute
<1>4. Subject(RouteOf(p)) = <<"namespaces", n, "pods", m>>
  BY <1>3 DEF Subject
<1> QED
  BY <1>1, <1>2, <1>4 DEF p

LEMMA ContainerPage ==
  ASSUME NEW n \in Names, NEW m \in Names, NEW c \in Names
  PROVE  LET p == <<"namespace", n, "pod", m, "container", c>>
         IN  /\ p \in Paths /\ IsPage(p)
             /\ Subject(RouteOf(p)) = <<"namespaces", n, "pods", m, "containers", c>>
<1> DEFINE p == <<"namespace", n, "pod", m, "container", c>>
<1>1. p \in Paths /\ Container(p) /\ p[2] = n /\ p[4] = m /\ p[6] = c
  BY FixedTexts DEF Paths, Container, Names
<1> HIDE DEF p
<1>2. IsPage(p)
  BY <1>1, PagePaths, EightPages DEF IsPage
<1>3. /\ RouteOf(p).page = "podContainerUtil" /\ RouteOf(p).params.namespace = n
      /\ RouteOf(p).params.podname = m /\ RouteOf(p).params.containername = c
  BY <1>1, ContainerRoute
<1>4. Subject(RouteOf(p)) = <<"namespaces", n, "pods", m, "containers", c>>
  BY <1>3 DEF Subject
<1> QED
  BY <1>1, <1>2, <1>4 DEF p

LEMMA FreeContainerPage ==
  ASSUME NEW n \in Names, NEW c \in Names
  PROVE  LET p == <<"node", n, "freecontainer", c>>
         IN  /\ p \in Paths /\ IsPage(p)
             /\ Subject(RouteOf(p)) = <<"nodes", n, "freecontainers", c>>
<1> DEFINE p == <<"node", n, "freecontainer", c>>
<1>1. p \in Paths /\ FreeContainer(p) /\ p[2] = n /\ p[4] = c
  BY FixedTexts DEF Paths, FreeContainer, Names
<1> HIDE DEF p
<1>2. IsPage(p)
  BY <1>1, PagePaths, EightPages DEF IsPage
<1>3. /\ RouteOf(p).page = "freeContainerUtil"
      /\ RouteOf(p).params.hostname = n /\ RouteOf(p).params.containername = c
  BY <1>1, FreeContainerRoute
<1>4. Subject(RouteOf(p)) = <<"nodes", n, "freecontainers", c>>
  BY <1>3 DEF Subject
<1> QED
  BY <1>1, <1>2, <1>4 DEF p

\* A click leads where the row says: for every page, every list on it and every
\* name in a row of that list, the path that goTo makes is the path of a page,
\* and the entity that this page charts is the row's.
THEOREM RowsLeadToTheirPage ==
  ASSUME NEW v \in Views, NEW k \in DOMAIN ListLinks(v), NEW name \in Seq(Names),
         Len(name) = NameParts(ListLinks(v)[k])
  PROVE  LET p == GoTo(v, k, name)
         IN  p \in Paths /\ IsPage(p) /\ Subject(RouteOf(p)) = Entity(ListLinks(v)[k], name)
<1> DEFINE p == GoTo(v, k, name)
           link == ListLinks(v)[k]
           q == v.params
           Goal == p \in Paths /\ IsPage(p) /\ Subject(RouteOf(p)) = Entity(link, name)
<1>0. \A i \in 1 .. Len(name) : name[i] \in Names
  BY ElementOfSeq
<1>1. name \in Seq(Texts) /\ Names \subseteq Texts
  BY SeqMonotonic DEF Names
<1>2. CASE v.page \in {"clusterUtil", "allNamespaces"}
  <2>1. k = 1 /\ link = <<"namespaces">>
    BY <1>2 DEF ListLinks
  <2>2. ~NodePods(link) /\ Len(name) = 1
    BY <2>1 DEF NodePods, NameParts
  <2>3. p = <<"namespace">> \o name
    BY <1>2 DEF GoTo
  <2>4. p = <<"namespace", name[1]>> /\ Entity(link, name) = <<"namespaces", name[1]>>
    BY <1>1, <2>1, <2>2, <2>3, ConcatOne, FixedTexts DEF Entity
  <2> QED
    BY <1>0, <2>2, <2>4, NamespacePage
<1>3. CASE v.page = "allNodes"
  <2>1. k = 1 /\ link = <<"nodes">>
    BY <1>3 DEF ListLinks
  <2>2. ~NodePods(link) /\ Len(name) = 1
    BY <2>1 DEF NodePods, NameParts, Last
  <2>3. p = <<"node">> \o name
    BY <1>3 DEF GoTo
  <2>4. p = <<"node", name[1]>> /\ Entity(link, name) = <<"nodes", name[1]>>
    BY <1>1, <2>1, <2>2, <2>3, ConcatOne, FixedTexts DEF Entity
  <2> QED
    BY <1>0, <2>2, <2>4, NodePage
<1>4. CASE v.page = "nodeUtil" /\ k = 1
  <2>1. link = <<"nodes", q.name, "pods">>
    BY <1>4 DEF ListLinks
  <2>2. NodePods(link) /\ Len(name) = 2
    BY <2>1 DEF NodePods, NameParts, Last
  <2>3. p = <<"namespace", name[1], "pod", name[2]>>
    BY <1>4 DEF GoTo
  <2>4. Entity(link, name) = <<"namespaces", name[1], "pods", name[2]>>
    BY <2>2 DEF Entity
  <2> QED
    BY <1>0, <2>2, <2>3, <2>4, PodPage
<1>5. CASE v.page = "nodeUtil" /\ k = 2
  <2>1. link = <<"nodes", q.name, "freecontainers">>
    BY <1>5 DEF ListLinks
  <2>2. ~NodePods(link) /\ Len(name) = 1
    BY <2>1 DEF NodePods, NameParts, Last
  <2>3. p = <<"node", q.name, "freecontainer">> \o name
    BY <1>5 DEF GoTo
  <2>4. q.name \in Names
    BY <1>5, ViewParams
  <2>5. p = <<"node", q.name, "freecontainer", name[1]>>
    BY <1>1, <2>2, <2>3, <2>4, ConcatThree, FixedTexts
  <2>6. Entity(link, name) = <<"nodes", q.name, "freecontainers", name[1]>>
    BY <1>1, <2>1, <2>2, <2>4, ConcatThree, FixedTexts DEF Entity
  <2> QED
    BY <1>0, <2>2, <2>4, <2>5, <2>6, FreeContainerPage
<1>6. CASE v.page = "namespaceUtil"
  <2>1. k = 1 /\ link = <<"namespaces", q.name, "pods">>
    BY <1>6 DEF ListLinks
  <2>2. ~NodePods(link) /\ Len(name) = 1
    BY <2>1 DEF NodePods, NameParts
  <2>3. p = <<"namespace", q.name, "pod">> \o name
    BY <1>6 DEF GoTo
  <2>4. q.name \in Names
    BY <1>6, ViewParams
  <2>5. p = <<"namespace", q.name, "pod", name[1]>>
    BY <1>1, <2>2, <2>3, <2>4, ConcatThree, FixedTexts
  <2>6. Entity(link, name) = <<"namespaces", q.name, "pods", name[1]>>
    BY <1>1, <2>1, <2>2, <2>4, ConcatThree, FixedTexts DEF Entity
  <2> QED
    BY <1>0, <2>2, <2>4, <2>5, <2>6, PodPage
<1>7. CASE v.page = "podUtil"
  <2>1. k = 1 /\ link = <<"namespaces", q.namespace, "pods", q.podname, "containers">>
    BY <1>7 DEF ListLinks
  <2>2. ~NodePods(link) /\ Len(name) = 1
    BY <2>1 DEF NodePods, NameParts
  <2>3. p = <<"namespace", q.namespace, "pod", q.podname, "container">> \o name
    BY <1>7 DEF GoTo
  <2>4. q.namespace \in Names /\ q.podname \in Names
    BY <1>7, ViewParams
  <2>5. p = <<"namespace", q.namespace, "pod", q.podname, "container", name[1]>>
    <3> DEFINE a == "namespace"
               b == q.namespace
               c == "pod"
               d == q.podname
               e == "container"
    <3>1. a \in Texts /\ b \in Texts /\ c \in Texts /\ d \in Texts /\ e \in Texts
      BY <1>1, <2>4, FixedTexts
    <3> HIDE DEF a, b, c, d, e
    <3>2. <<a, b, c, d, e>> \o name = <<a, b, c, d, e, name[1]>>
      BY <1>1, <2>2, <3>1, ConcatFive
    <3> USE DEF a, b, c, d, e
    <3> QED
      BY <2>3, <3>2
  <2>6. Entity(link, name) =
          <<"namespaces", q.namespace, "pods", q.podname, "containers", name[1]>>
    <3> DEFINE a == "namespaces"
               b == q.namespace
               c == "pods"
               d == q.podname
               e == "containers"
    <3>1. a \in Texts /\ b \in Texts /\ c \in Texts /\ d \in Texts /\ e \in Texts
      BY <1>1, <2>4, FixedTexts
    <3> HIDE DEF a, b, c, d, e
    <3>2. <<a, b, c, d, e>> \o name = <<a, b, c, d, e, name[1]>>
      BY <1>1, <2>2, <3>1, ConcatFive
    <3> USE DEF a, b, c, d, e
    <3> QED
      BY <2>1, <2>2, <3>2 DEF Entity
  <2> QED
    BY <1>0, <2>2, <2>4, <2>5, <2>6, ContainerPage
<1>8. v.page \notin {"podContainerUtil", "freeContainerUtil"}
  BY DEF ListLinks
<1>9. v.page = "nodeUtil" => k = 1 \/ k = 2
  BY DEF ListLinks
<1> HIDE DEF p, link
<1> QED
  BY <1>2, <1>3, <1>4, <1>5, <1>6, <1>7, <1>8, <1>9, ViewParams, EightPages DEF p, link

=============================================================================
