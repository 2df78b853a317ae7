----------------------------- MODULE RouteTree ------------------------------
(***************************************************************************)
(* The routing tree of the vendored gin framework (tree.go), as far as the *)
(* routes that setupHandlers registers reach it: plain paths and paths     *)
(* that end with a catch-all.  (Kubedash has no :parameter routes.)  A     *)
(* node holds a piece of path; the children are found by the first         *)
(* character of theirs and kept in descending order of priority.           *)
(*                                                                         *)
(* Paths are sequences of characters.  The tree is built by recursion, so  *)
(* this module is for TLC only.                                            *)
(***************************************************************************)
EXTENDS Integers, Sequences, SequencesExt, FiniteSetsExt

None == "none"
Slash == "/"
Star == "*"      \* "*" and the name of the wildcard that follows it

EmptyNode ==
  [path |-> <<>>, wildChild |-> FALSE, catchAll |-> FALSE, indices |-> <<>>,
   children |-> <<>>, handler |-> None, priority |-> 0]

\* What addRoute and insertChild panic with
Conflict == [EmptyNode EXCEPT !.handler = "conflict"]

From(s, i) == SubSeq(s, i, Len(s))
EndsWithSlash(s) == s # <<>> /\ Last(s) = Slash

\* The child at pos gets a higher priority and moves to the front of those
\* with a lower one.
IncrementChildPrio(n, pos) ==
  LET child == [n.children[pos] EXCEPT !.priority = @ + 1]
      newPos == Max({1} \cup {j + 1 : j \in {k \in 1 .. pos - 1 :
                                n.children[k].priority >= child.priority}})
  IN  [node |-> [n EXCEPT
                  !.children = InsertAt(RemoveAt(@, pos), newPos, child),
                  !.indices = InsertAt(RemoveAt(@, pos), newPos, n.indices[pos])],
       pos |-> newPos]

\* insertChild: the rest of a path becomes the node's own, the part from the
\* slash of a catch-all on two nodes below it.
InsertChild(n, path, h) ==
  IF Star \notin ToSet(path) THEN [n EXCEPT !.path = path, !.handler = h]
  ELSE LET star == CHOOSE i \in DOMAIN path : path[i] = Star
           leaf == [EmptyNode EXCEPT !.path = From(path, star - 1), !.catchAll = TRUE,
                                     !.handler = h, !.priority = 1]
           wild == [EmptyNode EXCEPT !.wildChild = TRUE, !.catchAll = TRUE,
                                     !.children = <<leaf>>, !.priority = 1]
       IN  IF \/ n.children # <<>> \/ EndsWithSlash(n.path)
              \/ star # Len(path) \/ star = 1 \/ path[star - 1] # Slash
             THEN Conflict
             ELSE [n EXCEPT !.path = SubSeq(path, 1, star - 2),
                            !.indices = <<Slash>>, !.children = <<wild>>]

\* Faulty variant: the new child repeats a character.
Split_OffByOne(n, i) ==
  LET child == [n EXCEPT !.path = From(@, i), !.catchAll = FALSE,
                         !.priority = @ - 1]
  IN  [n EXCEPT !.path = SubSeq(@, 1, i), !.wildChild = FALSE, !.handler = None,
                !.indices = <<n.path[i + 1]>>, !.children = <<child>>]

\* The node's path is cut after i characters; the rest goes to a new child.
Split(n, i) ==
  LET child == [n EXCEPT !.path = From(@, i + 1), !.catchAll = FALSE,
                         !.priority = @ - 1]
  IN  [n EXCEPT !.path = SubSeq(@, 1, i), !.wildChild = FALSE, !.handler = None,
                !.indices = <<n.path[i + 1]>>, !.children = <<child>>]

\* The walk of addRoute from a node whose priority is incremented already.
RECURSIVE Walk(_, _, _)
Walk(n, path, h) ==
  LET i == Len(LongestCommonPrefix({n.path, path}))
      s == IF i < Len(n.path) THEN Split(n, i) ELSE n
      rest == From(path, i + 1)
  IN  CASE rest = <<>> ->
             IF s.handler = None THEN [s EXCEPT !.handler = h] ELSE Conflict
        [] rest # <<>> /\ s.wildChild -> Conflict
        [] rest # <<>> /\ ~s.wildChild /\ rest[1] \in ToSet(s.indices) ->
             LET up == IncrementChildPrio(s, CHOOSE k \in DOMAIN s.indices :
                                               s.indices[k] = rest[1])
             IN  [up.node EXCEPT !.children[up.pos] = Walk(@, rest, h)]
        [] rest # <<>> /\ ~s.wildChild /\ rest[1] \notin ToSet(s.indices) ->
             IF rest[1] = Star THEN InsertChild(s, rest, h)
             ELSE LET wider == [s EXCEPT !.indices = Append(@, rest[1]),
                                         !.children = Append(@, EmptyNode)]
                      up == IncrementChildPrio(wider, Len(wider.children))
                  IN  [up.node EXCEPT !.children[up.pos] = InsertChild(@, rest, h)]

AddRoute(n, path, h) ==
  LET m == [n EXCEPT !.priority = @ + 1]
  IN  IF n.path = <<>> /\ n.children = <<>>
        THEN InsertChild(m, path, h) ELSE Walk(m, path, h)

Found(h) == [handler |-> h, tsr |-> FALSE]
NotFound(tsr) == [handler |-> None, tsr |-> tsr]

\* getValue: the handler of a path, or whether to redirect to the path with
\* (without) a slash at its end.
RECURSIVE GetValue(_, _)
GetValue(n, path) ==
  LET rest == From(path, Len(n.path) + 1)
      child(ch) == n.children[CHOOSE k \in DOMAIN n.indices : n.indices[k] = ch]
      missed == NotFound(\/ path = <<Slash>>
                         \/ n.path = Append(path, Slash) /\ n.handler # None)
  IN  CASE ~IsPrefix(n.path, path) -> missed
        [] path = n.path /\ n.handler # None -> Found(n.handler)
        [] path = n.path /\ n.handler = None ->
             NotFound(/\ Slash \in ToSet(n.indices)
                      /\ LET c == child(Slash)
                         IN  \/ Len(c.path) = 1 /\ c.handler # None
                             \/ c.catchAll /\ c.children[1].handler # None)
        [] IsStrictPrefix(n.path, path) /\ n.wildChild -> Found(n.children[1].handler)
        [] IsStrictPrefix(n.path, path) /\ ~n.wildChild ->
             IF rest[1] \in ToSet(n.indices) THEN GetValue(child(rest[1]), rest)
             ELSE NotFound(rest = <<Slash>> /\ n.handler # None)

\* A route is [path, handler]; the tree of a sequence of routes.
TreeOf(routes) ==
  FoldLeft(LAMBDA n, r : AddRoute(n, r.path, r.handler), EmptyNode, routes)

\* The routes of each method in the order in which setupHandlers registers
\* them (Static registers for GET and HEAD), the paths abbreviated.
StaticRoute == [path |-> <<Slash, "s", "t", Slash, Star>>, handler |-> "static"]
PagesRoute == [path |-> <<Slash, "p", "g", Slash, Star>>, handler |-> "static"]
IndexRoute == [path |-> <<Slash>>, handler |-> "index"]
ApiRoute == [path |-> <<Slash, "a", "p", Slash, Star>>, handler |-> "api"]
Registered(method) ==
  CASE method = "GET" -> <<StaticRoute, PagesRoute, IndexRoute, ApiRoute>>
    [] method = "HEAD" -> <<StaticRoute, PagesRoute>>
    [] OTHER -> <<>>

\* How handleHTTPRequest routes a request: there is a tree only for a method
\* with routes, and "/" is never redirected.
RouteOf(method, path) ==
  IF Registered(method) = <<>> THEN NotFound(FALSE)
  ELSE LET v == GetValue(TreeOf(Registered(method)), path)
       IN  [v EXCEPT !.tsr = @ /\ path # <<Slash>>]

-----------------------------------------------------------------------------
(* What the tree is for *)

\* A route serves its path; with a catch-all, every path that goes on with a
\* slash where the catch-all's slash is.
Serves(r, p) ==
  IF Last(r.path) = Star THEN IsPrefix(Front(r.path), p) ELSE p = r.path

HandlerFor(routes, p) ==
  IF \E r \in routes : Serves(r, p)
    THEN (CHOOSE r \in routes : Serves(r, p)).handler ELSE None

SlashToggled(p) == IF Last(p) = Slash THEN Front(p) ELSE Append(p, Slash)

\* The tree of some routes, registered in any order, finds for a path the
\* route that serves it and, if there is none (and the path is not "/", which
\* handleHTTPRequest never redirects), recommends a redirect exactly if the
\* target of the redirect is served: no redirect leads to a 404 or to another
\* redirect.
FindsRoutes(routes, paths) ==
  \A order \in SetToSeqs(routes) :
    LET tree == TreeOf(order)
    IN  \A p \in paths :
          LET found == GetValue(tree, p)
          IN  /\ found.handler = HandlerFor(routes, p)
              /\ (found.handler = None /\ p # <<Slash>>) =>
                   (found.tsr <=> HandlerFor(routes, SlashToggled(p)) # None)

=============================================================================
