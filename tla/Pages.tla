------------------------------- MODULE Pages --------------------------------
(***************************************************************************)
(* The pages of the dashboard (app/routes.js, app/views.js): which page a  *)
(* path of the browser's location has, which lists a page asks Heapster    *)
(* for, and where a click on a row of a list leads.                        *)
(*                                                                         *)
(* A path, a link to Heapster's API and the name in a row are sequences of *)
(* the parts between slashes; "/nodes/" is <<"nodes", Empty>>.             *)
(***************************************************************************)
EXTENDS Integers, SequencesExt

\* What is between two slashes, or after a slash at the end
Empty == ""

Lit(s) == [param |-> FALSE, text |-> s]
Par(k) == [param |-> TRUE, text |-> k]

\* $routeProvider.when, by the controller of the page
Pattern ==
  [clusterUtil |-> <<Lit(Empty)>>,
   allNodes |-> <<Lit("nodes"), Lit(Empty)>>,
   nodeUtil |-> <<Lit("node"), Par("name")>>,
   allNamespaces |-> <<Lit("namespaces"), Lit(Empty)>>,
   namespaceUtil |-> <<Lit("namespace"), Par("name")>>,
   podUtil |-> <<Lit("namespace"), Par("namespace"), Lit("pod"), Par("podname")>>,
   podContainerUtil |->
     <<Lit("namespace"), Par("namespace"), Lit("pod"), Par("podname"),
       Lit("container"), Par("containername")>>,
   freeContainerUtil |->
     <<Lit("node"), Par("hostname"), Lit("freecontainer"), Par("containername")>>]

Controllers == DOMAIN Pattern
Root == <<Empty>>

-----------------------------------------------------------------------------
(* Routing (angular-route) *)

Matches(path, pat) ==
  /\ Len(path) = Len(pat)
  /\ \A i \in 1 .. Len(pat) :
       IF pat[i].param THEN path[i] # Empty ELSE path[i] = pat[i].text

\* The path or pattern with a slash at its end, or without if it has one
Toggled(s, slash) == IF Last(s) = slash THEN Front(s) ELSE Append(s, slash)

IsPage(path) == \E c \in Controllers : Matches(path, Pattern[c])

\* $routeParams
Params(path, pat) ==
  [k \in {pat[i].text : i \in {j \in 1 .. Len(pat) : pat[j].param}} |->
     path[CHOOSE i \in 1 .. Len(pat) : pat[i] = Par(k)]]

RouteOf(path) ==
  LET c == CHOOSE p \in Controllers : Matches(path, Pattern[p])
  IN  [page |-> c, params |-> Params(path, Pattern[c])]

\* Every route has a redirection from its path with or without a slash at the
\* end, and otherwise there is the Cluster page.
RedirectTo(path) ==
  IF \E c \in Controllers : Matches(path, Toggled(Pattern[c], Lit(Empty)))
    THEN Toggled(path, Empty) ELSE Root

Canonical(path) == IF IsPage(path) THEN path ELSE RedirectTo(path)

-----------------------------------------------------------------------------
(* The controllers of views.js *)

\* listLink of every ListingController that a page runs: the Node page has a
\* second one (freeContainerListing), the container pages have none.
ListLinks(v) ==
  LET q == v.params
  IN  CASE v.page \in {"clusterUtil", "allNamespaces"} -> <<<<"namespaces">>>>
        [] v.page = "allNodes" -> <<<<"nodes">>>>
        [] v.page = "nodeUtil" ->
             <<<<"nodes", q.name, "pods">>, <<"nodes", q.name, "freecontainers">>>>
        [] v.page = "namespaceUtil" -> <<<<"namespaces", q.name, "pods">>>>
        [] v.page = "podUtil" ->
             <<<<"namespaces", q.namespace, "pods", q.podname, "containers">>>>
        [] OTHER -> <<>>

\* The entity whose metrics a page charts; for the pages without a chart, what
\* they list
Subject(v) ==
  LET q == v.params
  IN  CASE v.page = "clusterUtil" -> <<>>
        [] v.page = "allNodes" -> <<"nodes">>
        [] v.page = "allNamespaces" -> <<"namespaces">>
        [] v.page = "nodeUtil" -> <<"nodes", q.name>>
        [] v.page = "namespaceUtil" -> <<"namespaces", q.name>>
        [] v.page = "podUtil" -> <<"namespaces", q.namespace, "pods", q.podname>>
        [] v.page = "podContainerUtil" ->
             <<"namespaces", q.namespace, "pods", q.podname,
               "containers", q.containername>>
        [] v.page = "freeContainerUtil" ->
             <<"nodes", q.hostname, "freecontainers", q.containername>>

\* goTo of the scope of a page's k-th list, for the name in a row.  Pods have
\* the name "namespace/pod" in the list of a node.
GoTo(v, k, name) ==
  LET q == v.params
  IN  CASE v.page \in {"clusterUtil", "allNamespaces"} -> <<"namespace">> \o name
        [] v.page = "allNodes" -> <<"node">> \o name
        [] v.page = "nodeUtil" /\ k = 1 -> <<"namespace", name[1], "pod", name[2]>>
        [] v.page = "nodeUtil" /\ k = 2 -> <<"node", q.name, "freecontainer">> \o name
        [] v.page = "namespaceUtil" -> <<"namespace", q.name, "pod">> \o name
        [] v.page = "podUtil" ->
             <<"namespace", q.namespace, "pod", q.podname, "container">> \o name

\* The list of a node's pods, whose names have two parts; others have one.
NodePods(link) == link[1] = "nodes" /\ Last(link) = "pods"
NameParts(link) == IF NodePods(link) THEN 2 ELSE 1

\* The entity that a row of a list stands for in Heapster's API
Entity(link, name) ==
  IF NodePods(link)
    THEN <<"namespaces", name[1], "pods", name[2]>> ELSE link \o name

=============================================================================
