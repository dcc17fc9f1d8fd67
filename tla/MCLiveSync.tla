----------------------------- MODULE MCLiveSync -----------------------------
(* A text, the same in another style, one that differs, and an empty one.   *)
(* They are longer than CompareLength when trimmed, but for "b".            *)
EXTENDS LiveSync

SomeTexts == {<<"a", " ", "a">>, <<"a", " ", " ", "a", ".">>, <<"b">>, <<" ">>}
=============================================================================
