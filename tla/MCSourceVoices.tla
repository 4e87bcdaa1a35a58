--------------------------- MODULE MCSourceVoices ---------------------------
(***************************************************************************)
(* One source on which everything is called, with two items of which the   *)
(* first has no samples: whether a voice that loops has an item to loop    *)
(* from.                                                                   *)
(***************************************************************************)
EXTENDS SourceVoices

ItemsOf == [s \in Source |-> 2]
FirstOfEach == {<<s, 1>> : s \in Source}
=============================================================================
