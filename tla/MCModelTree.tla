---------------------------- MODULE MCModelTree ----------------------------
(* Small libraries for ModelTree. *)
EXTENDS ModelTree

SmallTree == {<<>>, <<"stl">>, <<"A">>, <<"A", "stl">>, <<"A", "B">>,
              <<"A", "stl", "B">>, <<"A", "B", "C">>}
=============================================================================
