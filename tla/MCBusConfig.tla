----------------------------- MODULE MCBusConfig -----------------------------
(***************************************************************************)
(* Every list of up to three characters, of a name's and a separator, that *)
(* does not begin with two of a name's.                                    *)
(***************************************************************************)
EXTENDS BusConfig

MCLists ==
  {list \in UNION {[1..n -> {"a", "#"}] : n \in 0..3} :
     Len(list) > 1 => {list[1], list[2]} # {"a"}}
MCPaths == {<<>>, <<"/", "b", "/", "a">>}
=============================================================================
