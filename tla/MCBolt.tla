------------------------------- MODULE MCBolt -------------------------------
(***************************************************************************)
(* Two patterns that both match the subject, by different paths of the     *)
(* tree; the first also matches the subject's first element.               *)
(***************************************************************************)
EXTENDS BoltInvariant
MCPattern == {<<"A", "+">>, <<"*", "B">>}
MCSubject == {<<"A", "B">>}
=============================================================================
