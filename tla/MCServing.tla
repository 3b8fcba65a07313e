------------------------------ MODULE MCServing ------------------------------
(* Small instances of Serving: a site with a page below a page, and two      *)
(* pages that share a link, one of them with a link into the site; an edit   *)
(* link, an anchor and a feed are not verified.                              *)
EXTENDS Serving, TLC
CONSTANTS p1, p2, l1, l2
MCSitePages == {<<>>, <<"a">>, <<"a", "b">>}
MCDocPages == {p1, p2}
MCHTML == (p1 :> {[tag |-> "a", url |-> l1], [tag |-> "a", url |-> "edit"], [tag |-> "a", url |-> "anchor"]}) @@
          (p2 :> {[tag |-> "a", url |-> l1], [tag |-> "img", url |-> l2], [tag |-> "link", url |-> "feed"]})
MCForm == (l1 :> "external") @@ (l2 :> "relative") @@ ("edit" :> "edit") @@ ("anchor" :> "anchor") @@ ("feed" :> "optional")
=============================================================================
