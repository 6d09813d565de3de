-------------------------- MODULE MCInstantActions --------------------------
(* Instances of InstantActions for TLC. *)
EXTENDS InstantActions, TLC

MCBlocking ==
  "n1" :> "NONE" @@ "n2" :> "NONE" @@ "n3" :> "NONE" @@ "n4" :> "NONE" @@
  "n5" :> "NONE" @@ "n6" :> "NONE" @@ "s1" :> "SOFT" @@ "s2" :> "SOFT" @@
  "h1" :> "HARD" @@ "h2" :> "HARD" @@ "h3" :> "HARD" @@
  "request" :> "NONE" @@ "firstRequest" :> "NONE" @@ "hardRequest" :> "HARD" @@
  "c1" :> "NONE" @@ "c2" :> "NONE" @@ "hardCancel" :> "HARD"

MCAction == DOMAIN MCBlocking

MCActionType ==
  [a \in MCAction |->
     IF a \in {"request", "firstRequest", "hardRequest"} THEN "stateRequest"
     ELSE IF a \in {"c1", "c2", "hardCancel"} THEN "cancelOrder"
     ELSE "other"]

MCMessageOf ==
  "segments" :> <<"n1", "s1", "h1", "n2">> @@
  "hard" :> <<"h2", "hardRequest">> @@
  "soft" :> <<"s2", "n3">> @@
  "cancel" :> <<"n4", "c1">> @@
  "again" :> <<"c2">> @@
  "request" :> <<"n5", "request">> @@
  "refresh" :> <<"firstRequest", "n6">> @@
  "late" :> <<"h3", "hardCancel">>

MCMessages == DOMAIN MCMessageOf

(***************************************************************************)
(* HARD actions; two cancelOrder actions that are executed when received;  *)
(* a single one that HARD actions delay.  An action that ends at once is a *)
(* HARD one or the last one of its message.                                *)
(***************************************************************************)
SoundInboxes ==
  {{"segments", "hard", "soft"}, {"cancel", "again", "request"}, {"late", "soft", "hard"}}

(* The first of two NONE actions ends at once.                             *)
RequestInboxes == {{"refresh"}, {"refresh", "segments", "hard"}}

(* Two cancelOrder actions that a HARD action delays.                      *)
DelayedInboxes == {{"segments", "cancel", "again"}}

MCSynchronous == {"h1", "h2", "c1", "c2"}
=============================================================================
