--------------------------- MODULE MCReplication ----------------------------
(* Small instances of Replication for TLC.                                 *)
EXTENDS Replication

CONSTANTS aws, b2   \* tags

MCTags == {aws, b2}

\* Every snapshot is held with both tags, with one, or only some are.
HoldBoth == {MCTags}
HoldOne  == {{aws}}
HoldSome == {{}, {aws}}

\* One destination, two with a tag each and one that releases nothing between
\* them, two that share a tag.
One     == <<{aws}>>
Between == <<{aws}, {}, {b2}>>
Shared  == <<{aws}, {aws}>>
=============================================================================
