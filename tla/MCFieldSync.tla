---------------------------- MODULE MCFieldSync -----------------------------
(* Instances of FieldSync: what is looked at.                              *)
EXTENDS FieldSync

(* Every field of every kind, one at a time.                               *)
EachField == UNION {{<<k, {f}>> : f \in Fields(k)} : k \in DOMAIN Rules}

(* A field of every rule of a kind, and those that are special.            *)
Representatives ==
  [k \in DOMAIN Rules |->
     {CHOOSE f \in Rules[k][c] : TRUE : c \in DOMAIN Rules[k]}
       \cup (SecondCall(k) \cap {"status"})
       \cup (KeptOnPut(k) \cup (IF k = "Database" THEN {"role", "poolConfig"}
                                                  ELSE {}))]

(* Two fields of a kind at a time, where they are not independent: a PATCH *)
(* may carry one on account of the other, a PUT may keep or refuse one.    *)
Pairs ==
  UNION {{<<k, {f, g}>> : f, g \in Representatives[k]} : k \in DOMAIN Patch}
    \cup UNION {{<<k, {f, g}>> : f \in Representatives[k], g \in KeptOnPut(k)}
                 : k \in DOMAIN Put}

EachAndPairs == EachField \cup Pairs

(* The policy profile's function denylist, with another field.             *)
Denylist == {<<"PolicyProfile", {"functionDenylist", "name"}>>}
=============================================================================
