----------------------------- MODULE MCDashboard -----------------------------
(* The dashboard for TLC. *)
EXTENDS Dashboard, TLC

CONSTANTS anna, ben, home, office, shop1, shop2, shop3, hook1, hook2, hook3,
          mock1, mock2, mock3, key1, key2, key3, chat1, chat2, chat3,
          suite1, suite2, suite3, leak1, leak2, got1, got2,
          addr1, addr2, addr3, top, amount, token

MCEmail == [c \in Calls |-> "anna@shop"]

MCHome == anna :> home @@ ben :> office
MCInitially ==
    shop1 :> home @@ hook1 :> shop1 @@ mock1 :> hook1 @@ key1 :> shop1 @@ chat1 :> shop1
    @@ suite1 :> shop1 @@ leak1 :> shop1 @@ got1 :> hook1
    @@ shop2 :> office @@ hook2 :> shop2 @@ mock2 :> hook2 @@ key2 :> shop2
    @@ chat2 :> shop2 @@ suite2 :> shop2 @@ leak2 :> shop2
    @@ got2 :> hook2
    @@ [id \in Ids |-> "unborn"]
MCSlugOf == hook1 :> addr1 @@ hook2 :> addr2 @@ hook3 :> addr3

MCUp == amount :> top @@ token :> top
Document(a, t) == top :> "object" @@ amount :> a @@ token :> t
MCDoc == [w \in Hooks |-> Document("integer", "absent")]
MCSamples == {Document("null", "absent")}
MCContracts == {[p \in Paths |-> [type |-> "any", required |-> FALSE]]}

Quoted == {p \in Piece : p.kind # "bare pattern"}
MCTexts == {[object |-> TRUE, data |-> Piece], [object |-> TRUE, data |-> Quoted],
            [object |-> FALSE, data |-> Quoted]}
MCLabels == {{"pattern"}}

MCSymmetry == Permutations(Requests) \union Permutations(Edits)
=============================================================================
