------------------------------ MODULE MCMetadata ------------------------------
(* The two halves of GetObjects, each over the inputs that its own module    *)
(* offers: the matching of a name with a pattern, and then the walk that     *)
(* asks the server.  They share no state (a filter of the walk is a set of   *)
(* names), so a walk is taken only after one pattern that matches anything,  *)
(* and the other patterns before one request that names no catalog.          *)
EXTENDS MCGetObjects, MCLikeMatch

OnePattern == pattern = <<"%">> /\ name = <<>>
OneRequest ==
    /\ depth = 1 /\ catalog = [exact |-> TRUE, matches |-> {"nope"}]
    /\ current = Default /\ unsupported = {}

MetadataInit == LikeInit /\ Init /\ (OnePattern \/ OneRequest)

MatchName == LikeNext /\ UNCHANGED vars
AskServer == OnePattern /\ result # "none" /\ Next /\ UNCHANGED likeVars

MetadataVars == <<likeVars, vars>>
MetadataSpec ==
    MetadataInit /\ [][MatchName \/ AskServer]_MetadataVars /\ WF_MetadataVars(MatchName)

=============================================================================
