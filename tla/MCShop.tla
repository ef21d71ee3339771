------------------------------- MODULE MCShop -------------------------------
(* A gift that sells out at once, a buster, and an item that lifts a         *)
(* warning, in a small instance of Shop for TLC.                            *)
EXTENDS Shop, TLC

MCKind  == "gift" :> "gift" @@ "buster" :> "buster" @@ "unwarn" :> "unwarn"
MCPrice == "gift" :> 2 @@ "buster" :> 1 @@ "unwarn" :> 1
MCStock == "gift" :> 1 @@ "buster" :> -1 @@ "unwarn" :> 0
MCShows == "c1" :> "buster"
=============================================================================
