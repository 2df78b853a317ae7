---------------------------- MODULE MCDashboard -----------------------------
(***************************************************************************)
(* A cluster of one node and two namespaces for the run of Dashboard: a    *)
(* pod with one container, and a free container that is gone in the second *)
(* version.  There the two namespaces also differ by less than a megabyte, *)
(* so that nothing tells them apart in the order by memory.                *)
(***************************************************************************)
EXTENDS Dashboard

Row(name, rank, mem, cpu) ==
  [name |-> name, rank |-> rank, memUsage |-> mem, cpuUsage |-> cpu]

Fixed ==
  (<<"nodes">> :> {Row(<<"n">>, 1, 9 * MB, 1)}) @@
  (<<"nodes", "n", "pods">> :> {Row(<<"a", "p">>, 1, 3 * MB, 1)}) @@
  (<<"namespaces", "a", "pods">> :> {Row(<<"p">>, 1, 3 * MB, 1)}) @@
  (<<"namespaces", "a", "pods", "p", "containers">> :> {Row(<<"c">>, 1, 3 * MB, 1)})

MCRows ==
  [v \in 1 .. 2 |->
     IF v = 1
       THEN (<<"namespaces">> :> {Row(<<"a">>, 1, 3 * MB, 1), Row(<<"b">>, 2, 5 * MB, 1)})
              @@ (<<"nodes", "n", "freecontainers">> :> {Row(<<"f">>, 1, MB, 1)}) @@ Fixed
       ELSE (<<"namespaces">> :> {Row(<<"a">>, 1, 3 * MB, 1), Row(<<"b">>, 2, 3 * MB - 9, 1)})
              @@ Fixed]

MCLinks == {<<"nodes">>, <<"other">>}
MCHeaders == [list : {<<"namespaces">>}, column : {"name"}]

=============================================================================
