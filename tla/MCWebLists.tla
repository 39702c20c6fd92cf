----------------------------- MODULE MCWebLists -----------------------------
(* Values for the constants of WebLists that a .cfg cannot write.          *)
EXTENDS WebLists

CONSTANTS TV, tele, noSlug, bare, full, tvId, ampId

(* There is a TV already, and a remote with the empty id: the other name   *)
(* leaves nothing for an id.                                               *)
MCSlug    == TV :> tvId @@ tele :> noSlug
MCStored  == [remotes  |-> <<[id |-> tvId, name |-> TV, rest |-> full],
                             [id |-> noSlug, name |-> tele, rest |-> full]>>,
              routines |-> <<>>,
              rules    |-> <<[id |-> ampId, name |-> TV, rest |-> full]>>]
MCForeign == {"remotes", "routines"} \X {[id |-> ampId, name |-> TV, rest |-> bare]}
=============================================================================
