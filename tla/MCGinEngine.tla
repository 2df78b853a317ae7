---------------------------- MODULE MCGinEngine -----------------------------
(***************************************************************************)
(* The engine for TLC: one request per way that the routing tree of        *)
(* Kubedash's routes answers.                                              *)
(***************************************************************************)
EXTENDS GinEngine

Tree == INSTANCE RouteTree

\* A path, and what the engine is to find for it
To(h) == [handler |-> h, tsr |-> FALSE]
Slashed == [handler |-> NoHandler, tsr |-> TRUE]
Asked == [
  GetIndex   |-> [method |-> "GET",  path |-> <<"/">>, route |-> To("index")],
  GetApi     |-> [method |-> "GET",  path |-> <<"/", "a", "p", "/", "x">>, route |-> To("api")],
  GetFile    |-> [method |-> "GET",  path |-> <<"/", "s", "t", "/", "x">>, route |-> To("static")],
  GetApiRoot |-> [method |-> "GET",  path |-> <<"/", "a", "p">>, route |-> Slashed],
  HeadPages  |-> [method |-> "HEAD", path |-> <<"/", "p", "g">>, route |-> Slashed],
  HeadIndex  |-> [method |-> "HEAD", path |-> <<"/">>, route |-> To(NoHandler)],
  PostApi    |-> [method |-> "POST", path |-> <<"/", "a", "p", "/", "x">>, route |-> To(NoHandler)]]

MCRequests == DOMAIN Asked
MCMethod == [r \in MCRequests |-> Asked[r].method]
MCRoute == [r \in MCRequests |-> Asked[r].route]

\* Request paths of up to five characters
Alphabet == {"/", "s", "t", "p", "g", "a", "x"}
Paths ==
  {<<"/">> \o p : p \in UNION {[1 .. k -> Alphabet] : k \in 0 .. 4}}

\* setupHandlers has returned and no request was served yet.
JustSetUp == ctx = [x \in Contexts |-> NewContext]

\* The routing tree (tree.go) finds for every path the handler that
\* setupHandlers registered for it, for GET and for HEAD and whatever the
\* order of the registrations; a redirect always leads to a handler.  It also
\* says of the requests of this model what their routes say.
RoutesAreFound ==
  JustSetUp =>
    /\ \A m \in {"GET", "HEAD"} :
         Tree!FindsRoutes({Tree!Registered(m)[i] : i \in 1 .. Len(Tree!Registered(m))},
                          Paths)
    /\ \A r \in Requests : Route[r] = Tree!RouteOf(Method[r], Asked[r].path)

=============================================================================
