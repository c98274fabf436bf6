----------------------------- MODULE MCDsmlFilter -----------------------------
(***************************************************************************)
(* Texts for DsmlFilter around a part to hide: one that is plain, one with *)
(* another tag in it, and one with the beginning of a tag that no end      *)
(* follows.                                                                *)
(***************************************************************************)
EXTENDS DsmlFilter

Open == <<"<", "|", "d", "s", "|", "h", ">">>
Close == <<"<", "/", "|", "d", "s", "|", "h", ">">>
Hidden == {<<"x">>, <<"<", "|", "d", "s", "|", "i", ">">>, <<"x", "<", "|", "x">>}

MCInputs == {<<"x">> \o Open \o hidden \o Close \o <<"x">> : hidden \in Hidden}
===============================================================================
