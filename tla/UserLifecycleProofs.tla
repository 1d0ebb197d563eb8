------------------------ MODULE UserLifecycleProofs ------------------------
(***************************************************************************)
(* Proofs about UserLifecycle: outside the operations, the credentials,    *)
(* key lists and snapshot of every user not left unresolved agree with the *)
(* user's rows; a compensation without an error is exact; and the internal *)
(* key of an active user is stable.                                        *)
(*                                                                         *)
(* The invariant says, for the user of the operation under way, what is    *)
(* already true and what a step that is left will make true: whatever is   *)
(* neither to be rendered nor to be published any more is as the rows      *)
(* (the restored ones, while restoring them is still to come) demand.  All *)
(* other users not left unresolved are as they are outside an operation.   *)
(***************************************************************************)
EXTENDS UserLifecycle, TLAPS

-----------------------------------------------------------------------------
(***************************************************************************)
(* What may be left of an operation's steps.                               *)
(***************************************************************************)

Kinds == {"create", "revoke", "delete", "rotate", "assign"}

Plans ==
    {<<"credential", "render", "verify", "publish">>, <<"render", "verify", "publish">>,
     <<"verify", "publish">>, <<"publish">>, <<>>,
     <<"rows", "credential", "internal", "render", "publish">>,
     <<"credential", "internal", "render", "publish">>,
     <<"internal", "render", "publish">>, <<"render", "publish">>,
     <<"rows">>, <<"credential">>, <<"publish", "render">>, <<"render">>,
     <<"rows", "internal", "render", "publish">>, <<"publish", "render", "portal">>,
     <<"render", "portal">>, <<"portal">>, <<"rows", "render", "publish">>,
     <<"rows", "publish">>}

(* The operations in which each of them is met, by kind, mode and failed.  *)
Met(p, k, m, f) ==
    \/ p = <<>> /\ k \in Kinds \cup {"none"}
    \/ /\ m = "forward" /\ ~f
       /\ \/ k = "create" /\ p = <<"credential", "render", "verify", "publish">>
          \/ k = "create" /\ p = <<"render", "verify", "publish">>
          \/ k = "create" /\ p = <<"verify", "publish">>
          \/ k = "revoke" /\ p = <<"publish", "render">>
          \/ k = "revoke" /\ p = <<"render">>
          \/ k = "delete" /\ p = <<"publish", "render", "portal">>
          \/ k = "delete" /\ p = <<"render", "portal">>
          \/ k = "delete" /\ p = <<"portal">>
          \/ k \in {"create", "rotate", "assign"} /\ p = <<"publish">>
    \/ /\ m = "rollback"
       /\ \/ k = "create" /\ ~f
             /\ p = <<"rows", "credential", "internal", "render", "publish">>
          \/ k = "create" /\ ~f /\ p = <<"credential", "internal", "render", "publish">>
          \/ k = "create" /\ ~f /\ p = <<"rows">>
          \/ k = "create" /\ f /\ p = <<"credential">>
          \/ k = "revoke" /\ ~f /\ p = <<"rows", "internal", "render", "publish">>
          \/ k = "delete" /\ ~f /\ p = <<"rows", "render", "publish">>
          \/ k \in {"rotate", "assign"} /\ ~f /\ p = <<"rows", "publish">>
          \/ k \in {"create", "revoke"} /\ p = <<"internal", "render", "publish">>
          \/ k \in {"create", "revoke", "delete"} /\ p = <<"render", "publish">>
          \/ k \in Kinds /\ p = <<"publish">>

Left(p, s) == \E i \in DOMAIN p : p[i] = s

First(p, s) == p # <<>> /\ Head(p) = s

Shape(p, h, t, S) == /\ p # <<>> /\ Head(p) = h /\ Tail(p) = t
                     /\ \A s : Left(p, s) <=> s \in S

(* What the proofs use of the steps that are left.                         *)
PlanFacts(p, k, m, f) ==
    /\ p \in Plans
    /\ k \in Kinds \cup {"none"}
    /\ k = "none" => p = <<>>
    /\ \A s : First(p, s) => Left(p, s)
    /\ p = <<>> => \A s : ~Left(p, s)
    /\ p # <<>> => /\ Met(Tail(p), k, m, f)
                   /\ \A s : Left(Tail(p), s) <=> Left(p, s) /\ s # Head(p)
    /\ p # <<>> /\ m = "forward" => ~f
    /\ p # <<>> => m \in {"forward", "rollback"}
    /\ Left(p, "rows") => m # "forward" /\ ~f /\ First(p, "rows")
    /\ Left(p, "credential") => k = "create"
    /\ Left(p, "credential") /\ m = "forward" =>
           Left(p, "render") /\ Left(p, "verify") /\ Left(p, "publish")
    /\ Left(p, "credential") /\ m # "forward" /\ ~f =>
           Left(p, "render") /\ Left(p, "publish")
    /\ Left(p, "internal") => /\ k \in {"create", "revoke"} /\ m # "forward"
                              /\ Left(p, "render") /\ Left(p, "publish")
    /\ Left(p, "verify") => k = "create" /\ m = "forward" /\ Left(p, "publish")
    /\ Left(p, "portal") => k = "delete" /\ m = "forward"
    /\ Left(p, "render") => k \in {"create", "revoke", "delete"}
    /\ k = "create" /\ m = "forward" /\ Left(p, "render") => Left(p, "verify")
    /\ k = "delete" /\ m = "forward" /\ p # <<>> => Left(p, "portal")
    /\ k = "create" /\ m = "forward" /\ Len(p) > 1 => Left(p, "verify")
    /\ k = "create" /\ Left(p, "rows") => (Left(p, "render") <=> Left(p, "publish"))
    /\ k \in {"revoke", "delete"} /\ Left(p, "rows") =>
           Left(p, "render") /\ Left(p, "publish")
    /\ k \in {"rotate", "assign"} /\ Left(p, "rows") => Left(p, "publish")
    /\ First(p, "credential") => ~Left(p, "rows")
    /\ First(p, "internal") => ~Left(p, "rows") /\ ~Left(p, "credential")
    /\ First(p, "render") =>
           ~Left(p, "rows") /\ ~Left(p, "credential") /\ ~Left(p, "internal")
    /\ First(p, "verify") =>
           ~Left(p, "rows") /\ ~Left(p, "credential") /\ ~Left(p, "render")
    /\ First(p, "publish") =>
           /\ ~Left(p, "rows") /\ ~Left(p, "credential") /\ ~Left(p, "internal")
           /\ ~Left(p, "verify")
    /\ First(p, "portal") => ~Left(p, "render") /\ ~Left(p, "publish")

LEMMA NothingLeft == \A s : ~Left(<<>>, s)
<1>1. DOMAIN <<>> = {}
  OBVIOUS
<1> QED BY <1>1 DEF Left

LEMMA Shapes ==
  /\ Shape(<<"credential", "render", "verify", "publish">>, "credential",
           <<"render", "verify", "publish">>,
           {"credential", "render", "verify", "publish"})
  /\ Shape(<<"render", "verify", "publish">>, "render",
           <<"verify", "publish">>,
           {"render", "verify", "publish"})
  /\ Shape(<<"verify", "publish">>, "verify",
           <<"publish">>,
           {"verify", "publish"})
  /\ Shape(<<"publish">>, "publish",
           <<>>,
           {"publish"})
  /\ Shape(<<"rows", "credential", "internal", "render", "publish">>, "rows",
           <<"credential", "internal", "render", "publish">>,
           {"rows", "credential", "internal", "render", "publish"})
  /\ Shape(<<"credential", "internal", "render", "publish">>, "credential",
           <<"internal", "render", "publish">>,
           {"credential", "internal", "render", "publish"})
  /\ Shape(<<"internal", "render", "publish">>, "internal",
           <<"render", "publish">>,
           {"internal", "render", "publish"})
  /\ Shape(<<"render", "publish">>, "render",
           <<"publish">>,
           {"render", "publish"})
  /\ Shape(<<"rows">>, "rows",
           <<>>,
           {"rows"})
  /\ Shape(<<"credential">>, "credential",
           <<>>,
           {"credential"})
  /\ Shape(<<"publish", "render">>, "publish",
           <<"render">>,
           {"publish", "render"})
  /\ Shape(<<"render">>, "render",
           <<>>,
           {"render"})
  /\ Shape(<<"rows", "internal", "render", "publish">>, "rows",
           <<"internal", "render", "publish">>,
           {"rows", "internal", "render", "publish"})
  /\ Shape(<<"publish", "render", "portal">>, "publish",
           <<"render", "portal">>,
           {"publish", "render", "portal"})
  /\ Shape(<<"render", "portal">>, "render",
           <<"portal">>,
           {"render", "portal"})
  /\ Shape(<<"portal">>, "portal",
           <<>>,
           {"portal"})
  /\ Shape(<<"rows", "render", "publish">>, "rows",
           <<"render", "publish">>,
           {"rows", "render", "publish"})
  /\ Shape(<<"rows", "publish">>, "rows",
           <<"publish">>,
           {"rows", "publish"})
BY DEF Shape, Left

LEMMA PlansKnown ==
  ASSUME NEW p, NEW k, NEW m, NEW f, Met(p, k, m, f)
  PROVE  PlanFacts(p, k, m, f)
<1> USE DEF First, Kinds, Plans
<1>1. CASE p = <<"credential", "render", "verify", "publish">>
  <2>1. Shape(p, "credential", <<"render", "verify", "publish">>, {"credential", "render", "verify", "publish"})
    BY ONLY Shapes, <1>1
  <2>2. k = "create" /\ m = "forward" /\ ~f
    BY <1>1 DEF Met
  <2>3. Met(<<"render", "verify", "publish">>, k, m, f)
    BY <2>2 DEF Met
  <2>4. Shape(<<"render", "verify", "publish">>, "render", <<"verify", "publish">>, {"render", "verify", "publish"})
    BY ONLY Shapes
  <2>5. \A s : Left(Tail(p), s) <=> Left(p, s) /\ s # Head(p)
    BY <2>1, <2>4 DEF Shape
  <2>6. p \in Plans /\ (k = "create" /\ m = "forward" /\ Len(p) > 1 => Left(p, "verify"))
    BY <1>1, <2>1, <2>2 DEF Shape
  <2>7. /\ p # <<>> /\ Met(Tail(p), k, m, f) /\ Head(p) = "credential"
        /\ \A s : Left(p, s) <=> s \in {"credential", "render", "verify", "publish"}
    BY <2>1, <2>3 DEF Shape
  <2> QED BY ONLY <2>2,  <2>5, <2>6, <2>7 DEF First, Kinds, PlanFacts
<1>2. CASE p = <<"render", "verify", "publish">>
  <2>1. Shape(p, "render", <<"verify", "publish">>, {"render", "verify", "publish"})
    BY ONLY Shapes, <1>2
  <2>2. k = "create" /\ m = "forward" /\ ~f
    BY <1>2 DEF Met
  <2>3. Met(<<"verify", "publish">>, k, m, f)
    BY <2>2 DEF Met
  <2>4. Shape(<<"verify", "publish">>, "verify", <<"publish">>, {"verify", "publish"})
    BY ONLY Shapes
  <2>5. \A s : Left(Tail(p), s) <=> Left(p, s) /\ s # Head(p)
    BY <2>1, <2>4 DEF Shape
  <2>6. p \in Plans /\ (k = "create" /\ m = "forward" /\ Len(p) > 1 => Left(p, "verify"))
    BY <1>2, <2>1, <2>2 DEF Shape
  <2>7. /\ p # <<>> /\ Met(Tail(p), k, m, f) /\ Head(p) = "render"
        /\ \A s : Left(p, s) <=> s \in {"render", "verify", "publish"}
    BY <2>1, <2>3 DEF Shape
  <2> QED BY ONLY <2>2,  <2>5, <2>6, <2>7 DEF First, Kinds, PlanFacts
<1>3. CASE p = <<"verify", "publish">>
  <2>1. Shape(p, "verify", <<"publish">>, {"verify", "publish"})
    BY ONLY Shapes, <1>3
  <2>2. k = "create" /\ m = "forward" /\ ~f
    BY <1>3 DEF Met
  <2>3. Met(<<"publish">>, k, m, f)
    BY <2>2 DEF Met
  <2>4. Shape(<<"publish">>, "publish", <<>>, {"publish"})
    BY ONLY Shapes
  <2>5. \A s : Left(Tail(p), s) <=> Left(p, s) /\ s # Head(p)
    BY <2>1, <2>4 DEF Shape
  <2>6. p \in Plans /\ (k = "create" /\ m = "forward" /\ Len(p) > 1 => Left(p, "verify"))
    BY <1>3, <2>1, <2>2 DEF Shape
  <2>7. /\ p # <<>> /\ Met(Tail(p), k, m, f) /\ Head(p) = "verify"
        /\ \A s : Left(p, s) <=> s \in {"verify", "publish"}
    BY <2>1, <2>3 DEF Shape
  <2> QED BY ONLY <2>2,  <2>5, <2>6, <2>7 DEF First, Kinds, PlanFacts
<1>4. CASE p = <<"publish">>
  <2>1. Shape(p, "publish", <<>>, {"publish"})
    BY ONLY Shapes, <1>4
  <2>2. \/ m = "forward" /\ ~f /\ k \in {"create", "rotate", "assign"}
        \/ m = "rollback" /\ k \in Kinds
    BY <1>4 DEF Met
  <2>3. Met(<<>>, k, m, f)
    BY <2>2 DEF Met
  <2>4. \A s : ~Left(<<>>, s)
    BY ONLY NothingLeft
  <2>5. \A s : Left(Tail(p), s) <=> Left(p, s) /\ s # Head(p)
    BY <2>1, <2>4 DEF Shape
  <2>6. p \in Plans /\ (k = "create" /\ m = "forward" /\ Len(p) > 1 => Left(p, "verify"))
    BY <1>4, <2>1, <2>2 DEF Shape
  <2>7. /\ p # <<>> /\ Met(Tail(p), k, m, f) /\ Head(p) = "publish"
        /\ \A s : Left(p, s) <=> s \in {"publish"}
    BY <2>1, <2>3 DEF Shape
  <2> QED BY ONLY <2>2,  <2>5, <2>6, <2>7 DEF First, Kinds, PlanFacts
<1>5. CASE p = <<>>
  BY NothingLeft, <1>5 DEF PlanFacts, Met
<1>6. CASE p = <<"rows", "credential", "internal", "render", "publish">>
  <2>1. Shape(p, "rows", <<"credential", "internal", "render", "publish">>, {"rows", "credential", "internal", "render", "publish"})
    BY ONLY Shapes, <1>6
  <2>2. k = "create" /\ m = "rollback" /\ ~f
    BY <1>6 DEF Met
  <2>3. Met(<<"credential", "internal", "render", "publish">>, k, m, f)
    BY <2>2 DEF Met
  <2>4. Shape(<<"credential", "internal", "render", "publish">>, "credential", <<"internal", "render", "publish">>, {"credential", "internal", "render", "publish"})
    BY ONLY Shapes
  <2>5. \A s : Left(Tail(p), s) <=> Left(p, s) /\ s # Head(p)
    BY <2>1, <2>4 DEF Shape
  <2>6. p \in Plans /\ (k = "create" /\ m = "forward" /\ Len(p) > 1 => Left(p, "verify"))
    BY <1>6, <2>1, <2>2 DEF Shape
  <2>7. /\ p # <<>> /\ Met(Tail(p), k, m, f) /\ Head(p) = "rows"
        /\ \A s : Left(p, s) <=> s \in {"rows", "credential", "internal", "render", "publish"}
    BY <2>1, <2>3 DEF Shape
  <2> QED BY ONLY <2>2,  <2>5, <2>6, <2>7 DEF First, Kinds, PlanFacts
<1>7. CASE p = <<"credential", "internal", "render", "publish">>
  <2>1. Shape(p, "credential", <<"internal", "render", "publish">>, {"credential", "internal", "render", "publish"})
    BY ONLY Shapes, <1>7
  <2>2. k = "create" /\ m = "rollback" /\ ~f
    BY <1>7 DEF Met
  <2>3. Met(<<"internal", "render", "publish">>, k, m, f)
    BY <2>2 DEF Met
  <2>4. Shape(<<"internal", "render", "publish">>, "internal", <<"render", "publish">>, {"internal", "render", "publish"})
    BY ONLY Shapes
  <2>5. \A s : Left(Tail(p), s) <=> Left(p, s) /\ s # Head(p)
    BY <2>1, <2>4 DEF Shape
  <2>6. p \in Plans /\ (k = "create" /\ m = "forward" /\ Len(p) > 1 => Left(p, "verify"))
    BY <1>7, <2>1, <2>2 DEF Shape
  <2>7. /\ p # <<>> /\ Met(Tail(p), k, m, f) /\ Head(p) = "credential"
        /\ \A s : Left(p, s) <=> s \in {"credential", "internal", "render", "publish"}
    BY <2>1, <2>3 DEF Shape
  <2> QED BY ONLY <2>2,  <2>5, <2>6, <2>7 DEF First, Kinds, PlanFacts
<1>8. CASE p = <<"internal", "render", "publish">>
  <2>1. Shape(p, "internal", <<"render", "publish">>, {"internal", "render", "publish"})
    BY ONLY Shapes, <1>8
  <2>2. k \in {"create", "revoke"} /\ m = "rollback"
    BY <1>8 DEF Met
  <2>3. Met(<<"render", "publish">>, k, m, f)
    BY <2>2 DEF Met
  <2>4. Shape(<<"render", "publish">>, "render", <<"publish">>, {"render", "publish"})
    BY ONLY Shapes
  <2>5. \A s : Left(Tail(p), s) <=> Left(p, s) /\ s # Head(p)
    BY <2>1, <2>4 DEF Shape
  <2>6. p \in Plans /\ (k = "create" /\ m = "forward" /\ Len(p) > 1 => Left(p, "verify"))
    BY <1>8, <2>1, <2>2 DEF Shape
  <2>7. /\ p # <<>> /\ Met(Tail(p), k, m, f) /\ Head(p) = "internal"
        /\ \A s : Left(p, s) <=> s \in {"internal", "render", "publish"}
    BY <2>1, <2>3 DEF Shape
  <2> QED BY ONLY <2>2,  <2>5, <2>6, <2>7 DEF First, Kinds, PlanFacts
<1>9. CASE p = <<"render", "publish">>
  <2>1. Shape(p, "render", <<"publish">>, {"render", "publish"})
    BY ONLY Shapes, <1>9
  <2>2. k \in {"create", "revoke", "delete"} /\ m = "rollback"
    BY <1>9 DEF Met
  <2>3. Met(<<"publish">>, k, m, f)
    BY <2>2 DEF Met
  <2>4. Shape(<<"publish">>, "publish", <<>>, {"publish"})
    BY ONLY Shapes
  <2>5. \A s : Left(Tail(p), s) <=> Left(p, s) /\ s # Head(p)
    BY <2>1, <2>4 DEF Shape
  <2>6. p \in Plans /\ (k = "create" /\ m = "forward" /\ Len(p) > 1 => Left(p, "verify"))
    BY <1>9, <2>1, <2>2 DEF Shape
  <2>7. /\ p # <<>> /\ Met(Tail(p), k, m, f) /\ Head(p) = "render"
        /\ \A s : Left(p, s) <=> s \in {"render", "publish"}
    BY <2>1, <2>3 DEF Shape
  <2> QED BY ONLY <2>2,  <2>5, <2>6, <2>7 DEF First, Kinds, PlanFacts
<1>10. CASE p = <<"rows">>
  <2>1. Shape(p, "rows", <<>>, {"rows"})
    BY ONLY Shapes, <1>10
  <2>2. k = "create" /\ m = "rollback" /\ ~f
    BY <1>10 DEF Met
  <2>3. Met(<<>>, k, m, f)
    BY <2>2 DEF Met
  <2>4. \A s : ~Left(<<>>, s)
    BY ONLY NothingLeft
  <2>5. \A s : Left(Tail(p), s) <=> Left(p, s) /\ s # Head(p)
    BY <2>1, <2>4 DEF Shape
  <2>6. p \in Plans /\ (k = "create" /\ m = "forward" /\ Len(p) > 1 => Left(p, "verify"))
    BY <1>10, <2>1, <2>2 DEF Shape
  <2>7. /\ p # <<>> /\ Met(Tail(p), k, m, f) /\ Head(p) = "rows"
        /\ \A s : Left(p, s) <=> s \in {"rows"}
    BY <2>1, <2>3 DEF Shape
  <2> QED BY ONLY <2>2,  <2>5, <2>6, <2>7 DEF First, Kinds, PlanFacts
<1>11. CASE p = <<"credential">>
  <2>1. Shape(p, "credential", <<>>, {"credential"})
    BY ONLY Shapes, <1>11
  <2>2. k = "create" /\ m = "rollback" /\ f
    BY <1>11 DEF Met
  <2>3. Met(<<>>, k, m, f)
    BY <2>2 DEF Met
  <2>4. \A s : ~Left(<<>>, s)
    BY ONLY NothingLeft
  <2>5. \A s : Left(Tail(p), s) <=> Left(p, s) /\ s # Head(p)
    BY <2>1, <2>4 DEF Shape
  <2>6. p \in Plans /\ (k = "create" /\ m = "forward" /\ Len(p) > 1 => Left(p, "verify"))
    BY <1>11, <2>1, <2>2 DEF Shape
  <2>7. /\ p # <<>> /\ Met(Tail(p), k, m, f) /\ Head(p) = "credential"
        /\ \A s : Left(p, s) <=> s \in {"credential"}
    BY <2>1, <2>3 DEF Shape
  <2>8. /\ k = "create" /\ m = "rollback"
        /\ Left(p, "credential") /\ m # "forward" /\ ~f =>
               Left(p, "render") /\ Left(p, "publish")
    BY <2>2
  <2> QED BY ONLY <2>8, <2>5, <2>6, <2>7 DEF First, Kinds, PlanFacts
<1>12. CASE p = <<"publish", "render">>
  <2>1. Shape(p, "publish", <<"render">>, {"publish", "render"})
    BY ONLY Shapes, <1>12
  <2>2. k = "revoke" /\ m = "forward" /\ ~f
    BY <1>12 DEF Met
  <2>3. Met(<<"render">>, k, m, f)
    BY <2>2 DEF Met
  <2>4. Shape(<<"render">>, "render", <<>>, {"render"})
    BY ONLY Shapes
  <2>5. \A s : Left(Tail(p), s) <=> Left(p, s) /\ s # Head(p)
    BY <2>1, <2>4 DEF Shape
  <2>6. p \in Plans /\ (k = "create" /\ m = "forward" /\ Len(p) > 1 => Left(p, "verify"))
    BY <1>12, <2>1, <2>2 DEF Shape
  <2>7. /\ p # <<>> /\ Met(Tail(p), k, m, f) /\ Head(p) = "publish"
        /\ \A s : Left(p, s) <=> s \in {"publish", "render"}
    BY <2>1, <2>3 DEF Shape
  <2> QED BY ONLY <2>2,  <2>5, <2>6, <2>7 DEF First, Kinds, PlanFacts
<1>13. CASE p = <<"render">>
  <2>1. Shape(p, "render", <<>>, {"render"})
    BY ONLY Shapes, <1>13
  <2>2. k = "revoke" /\ m = "forward" /\ ~f
    BY <1>13 DEF Met
  <2>3. Met(<<>>, k, m, f)
    BY <2>2 DEF Met
  <2>4. \A s : ~Left(<<>>, s)
    BY ONLY NothingLeft
  <2>5. \A s : Left(Tail(p), s) <=> Left(p, s) /\ s # Head(p)
    BY <2>1, <2>4 DEF Shape
  <2>6. p \in Plans /\ (k = "create" /\ m = "forward" /\ Len(p) > 1 => Left(p, "verify"))
    BY <1>13, <2>1, <2>2 DEF Shape
  <2>7. /\ p # <<>> /\ Met(Tail(p), k, m, f) /\ Head(p) = "render"
        /\ \A s : Left(p, s) <=> s \in {"render"}
    BY <2>1, <2>3 DEF Shape
  <2> QED BY ONLY <2>2,  <2>5, <2>6, <2>7 DEF First, Kinds, PlanFacts
<1>14. CASE p = <<"rows", "internal", "render", "publish">>
  <2>1. Shape(p, "rows", <<"internal", "render", "publish">>, {"rows", "internal", "render", "publish"})
    BY ONLY Shapes, <1>14
  <2>2. k = "revoke" /\ m = "rollback" /\ ~f
    BY <1>14 DEF Met
  <2>3. Met(<<"internal", "render", "publish">>, k, m, f)
    BY <2>2 DEF Met
  <2>4. Shape(<<"internal", "render", "publish">>, "internal", <<"render", "publish">>, {"internal", "render", "publish"})
    BY ONLY Shapes
  <2>5. \A s : Left(Tail(p), s) <=> Left(p, s) /\ s # Head(p)
    BY <2>1, <2>4 DEF Shape
  <2>6. p \in Plans /\ (k = "create" /\ m = "forward" /\ Len(p) > 1 => Left(p, "verify"))
    BY <1>14, <2>1, <2>2 DEF Shape
  <2>7. /\ p # <<>> /\ Met(Tail(p), k, m, f) /\ Head(p) = "rows"
        /\ \A s : Left(p, s) <=> s \in {"rows", "internal", "render", "publish"}
    BY <2>1, <2>3 DEF Shape
  <2> QED BY ONLY <2>2,  <2>5, <2>6, <2>7 DEF First, Kinds, PlanFacts
<1>15. CASE p = <<"publish", "render", "portal">>
  <2>1. Shape(p, "publish", <<"render", "portal">>, {"publish", "render", "portal"})
    BY ONLY Shapes, <1>15
  <2>2. k = "delete" /\ m = "forward" /\ ~f
    BY <1>15 DEF Met
  <2>3. Met(<<"render", "portal">>, k, m, f)
    BY <2>2 DEF Met
  <2>4. Shape(<<"render", "portal">>, "render", <<"portal">>, {"render", "portal"})
    BY ONLY Shapes
  <2>5. \A s : Left(Tail(p), s) <=> Left(p, s) /\ s # Head(p)
    BY <2>1, <2>4 DEF Shape
  <2>6. p \in Plans /\ (k = "create" /\ m = "forward" /\ Len(p) > 1 => Left(p, "verify"))
    BY <1>15, <2>1, <2>2 DEF Shape
  <2>7. /\ p # <<>> /\ Met(Tail(p), k, m, f) /\ Head(p) = "publish"
        /\ \A s : Left(p, s) <=> s \in {"publish", "render", "portal"}
    BY <2>1, <2>3 DEF Shape
  <2> QED BY ONLY <2>2,  <2>5, <2>6, <2>7 DEF First, Kinds, PlanFacts
<1>16. CASE p = <<"render", "portal">>
  <2>1. Shape(p, "render", <<"portal">>, {"render", "portal"})
    BY ONLY Shapes, <1>16
  <2>2. k = "delete" /\ m = "forward" /\ ~f
    BY <1>16 DEF Met
  <2>3. Met(<<"portal">>, k, m, f)
    BY <2>2 DEF Met
  <2>4. Shape(<<"portal">>, "portal", <<>>, {"portal"})
    BY ONLY Shapes
  <2>5. \A s : Left(Tail(p), s) <=> Left(p, s) /\ s # Head(p)
    BY <2>1, <2>4 DEF Shape
  <2>6. p \in Plans /\ (k = "create" /\ m = "forward" /\ Len(p) > 1 => Left(p, "verify"))
    BY <1>16, <2>1, <2>2 DEF Shape
  <2>7. /\ p # <<>> /\ Met(Tail(p), k, m, f) /\ Head(p) = "render"
        /\ \A s : Left(p, s) <=> s \in {"render", "portal"}
    BY <2>1, <2>3 DEF Shape
  <2> QED BY ONLY <2>2,  <2>5, <2>6, <2>7 DEF First, Kinds, PlanFacts
<1>17. CASE p = <<"portal">>
  <2>1. Shape(p, "portal", <<>>, {"portal"})
    BY ONLY Shapes, <1>17
  <2>2. k = "delete" /\ m = "forward" /\ ~f
    BY <1>17 DEF Met
  <2>3. Met(<<>>, k, m, f)
    BY <2>2 DEF Met
  <2>4. \A s : ~Left(<<>>, s)
    BY ONLY NothingLeft
  <2>5. \A s : Left(Tail(p), s) <=> Left(p, s) /\ s # Head(p)
    BY <2>1, <2>4 DEF Shape
  <2>6. p \in Plans /\ (k = "create" /\ m = "forward" /\ Len(p) > 1 => Left(p, "verify"))
    BY <1>17, <2>1, <2>2 DEF Shape
  <2>7. /\ p # <<>> /\ Met(Tail(p), k, m, f) /\ Head(p) = "portal"
        /\ \A s : Left(p, s) <=> s \in {"portal"}
    BY <2>1, <2>3 DEF Shape
  <2> QED BY ONLY <2>2,  <2>5, <2>6, <2>7 DEF First, Kinds, PlanFacts
<1>18. CASE p = <<"rows", "render", "publish">>
  <2>1. Shape(p, "rows", <<"render", "publish">>, {"rows", "render", "publish"})
    BY ONLY Shapes, <1>18
  <2>2. k = "delete" /\ m = "rollback" /\ ~f
    BY <1>18 DEF Met
  <2>3. Met(<<"render", "publish">>, k, m, f)
    BY <2>2 DEF Met
  <2>4. Shape(<<"render", "publish">>, "render", <<"publish">>, {"render", "publish"})
    BY ONLY Shapes
  <2>5. \A s : Left(Tail(p), s) <=> Left(p, s) /\ s # Head(p)
    BY <2>1, <2>4 DEF Shape
  <2>6. p \in Plans /\ (k = "create" /\ m = "forward" /\ Len(p) > 1 => Left(p, "verify"))
    BY <1>18, <2>1, <2>2 DEF Shape
  <2>7. /\ p # <<>> /\ Met(Tail(p), k, m, f) /\ Head(p) = "rows"
        /\ \A s : Left(p, s) <=> s \in {"rows", "render", "publish"}
    BY <2>1, <2>3 DEF Shape
  <2> QED BY ONLY <2>2,  <2>5, <2>6, <2>7 DEF First, Kinds, PlanFacts
<1>19. CASE p = <<"rows", "publish">>
  <2>1. Shape(p, "rows", <<"publish">>, {"rows", "publish"})
    BY ONLY Shapes, <1>19
  <2>2. k \in {"rotate", "assign"} /\ m = "rollback" /\ ~f
    BY <1>19 DEF Met
  <2>3. Met(<<"publish">>, k, m, f)
    BY <2>2 DEF Met
  <2>4. Shape(<<"publish">>, "publish", <<>>, {"publish"})
    BY ONLY Shapes
  <2>5. \A s : Left(Tail(p), s) <=> Left(p, s) /\ s # Head(p)
    BY <2>1, <2>4 DEF Shape
  <2>6. p \in Plans /\ (k = "create" /\ m = "forward" /\ Len(p) > 1 => Left(p, "verify"))
    BY <1>19, <2>1, <2>2 DEF Shape
  <2>7. /\ p # <<>> /\ Met(Tail(p), k, m, f) /\ Head(p) = "rows"
        /\ \A s : Left(p, s) <=> s \in {"rows", "publish"}
    BY <2>1, <2>3 DEF Shape
  <2> QED BY ONLY <2>2,  <2>5, <2>6, <2>7 DEF First, Kinds, PlanFacts
<1> QED BY <1>1, <1>2, <1>3, <1>4, <1>5, <1>6, <1>7, <1>8, <1>9, <1>10, <1>11, <1>12, <1>13, <1>14, <1>15, <1>16, <1>17, <1>18, <1>19 DEF Met

-----------------------------------------------------------------------------
(***************************************************************************)
(* The inductive invariant.                                                *)
(***************************************************************************)

Keys == [key : Nat, active : BOOLEAN]
Rows == [status : {"none", "active", "revoked"}, key : Nat]
Credentials == {"none", "initial", "own"}
Memories == [rows : Rows, routed : BOOLEAN, internal : Keys, credential : Credentials]
Tasks == [kind : Kinds \cup {"none"}, user : Person \cup {"none"}, plan : Plans,
          mode : {"forward", "rollback"}, synced : BOOLEAN, failed : BOOLEAN,
          before : Memories]
Scans == [at : {"idle", "read", "synced"}, users : SUBSET Person]
Records == [key : Nat, internal : Nat]
Issues == [external : Nat, internal : Nat]

UserTypes ==
    /\ rows \in [Person -> Rows]
    /\ routed \subseteq Person
    /\ internal \in [Person -> Keys]
    /\ credential \in [Person -> Credentials]
    /\ accepted \in [CPA -> SUBSET (Person \X (Nat \ {0}))]
    /\ served \in [Person -> Records]
    /\ scan \in [Peer -> Scans]
    /\ login \subseteq Person
    /\ issued \in [Person -> Issues]
    /\ unresolved \subseteq Person

(* An external key in use was issued, an active user has one, and what the *)
(* snapshot serves has an internal key.                                    *)
KeysIssued ==
    \A u \in Person :
        /\ rows[u].key <= issued[u].external
        /\ rows[u].status = "active" => rows[u].key # 0
        /\ served[u].key <= issued[u].external
        /\ served[u].key # 0 => served[u].internal # 0

(* The plan is one the operation can have left; Idle has nothing left.     *)
TaskKnown ==
    /\ task \in Tasks
    /\ Met(task.plan, task.kind, task.mode, task.failed)
    /\ ~Idle => task.user \in Person

Forwards == task.mode = "forward"

ToDo(step) == Left(task.plan, step)

(* The rows of the user an operation works on, and those it found.         *)
RowsKnown ==
    LET u == task.user  before == task.before IN
    ~Idle =>
        /\ before.rows.key <= issued[u].external
        /\ before.rows.status = "active" => before.rows.key # 0
        /\ task.kind = "create" => before.rows.status # "active"
        /\ task.kind \in {"revoke", "rotate", "assign"} => before.rows.status = "active"
        /\ Forwards \/ ToDo("rows") =>
               /\ task.kind = "create" => rows[u].status = "active" /\ u \notin routed
               /\ task.kind \in {"revoke", "delete"} => rows[u].status # "active"
               /\ task.kind \in {"rotate", "assign"} => rows[u].status = "active"
        /\ ~Forwards /\ ~ToDo("rows") /\ (~task.failed \/ ToDo("internal")) =>
               rows[u] = before.rows /\ (u \in routed <=> before.routed)

(* An internal key stays, unless its user is deleted.                      *)
KeyKnown ==
    LET u == task.user  before == task.before IN
    ~Idle /\ before.rows.status = "active" =>
        /\ u \notin unresolved => before.internal.key # 0
        /\ /\ before.internal.key # 0
           /\ task.kind = "delete" => ~Forwards /\ ~ToDo("rows") /\ ~task.failed
           => internal[u].key = before.internal.key

AcceptsOwn(u) == \A a \in CPA : <<u, internal[u].key>> \in accepted[a]

AcceptsNone(u) == \A a \in CPA, n \in Nat : <<u, n>> \notin accepted[a]

(* The key lists, or the snapshot, are as a user of that status requires.  *)
AcceptedAs(u, status) == IF status = "active" THEN AcceptsOwn(u) ELSE AcceptsNone(u)

ServedAs(u, status) ==
    served[u] = IF status = "active" /\ u \in routed
                  THEN [key |-> rows[u].key, internal |-> internal[u].key] ELSE NotServed

(* The status the user will have when the operation is over.               *)
GoalStatus == IF ToDo("rows") THEN task.before.rows.status ELSE rows[task.user].status

(* What is known of the user even if an earlier operation was abandoned:   *)
(* three operations render and publish whatever they find.                 *)
Certain == \/ task.user \notin unresolved
           \/ Forwards /\ task.kind \in {"create", "revoke", "delete"}

(* A new user is neither accepted nor served before the credential is set. *)
NotBegun == /\ task.kind = "create" /\ Forwards /\ ToDo("credential")
            /\ task.user \notin unresolved

AcceptedKnown ==
    ~Idle /\ ~task.failed =>
        /\ Certain /\ ~ToDo("render") => AcceptedAs(task.user, GoalStatus)
        /\ NotBegun => AcceptsNone(task.user)

ServedKnown ==
    ~Idle /\ ~task.failed =>
        /\ Certain /\ ~ToDo("publish") => ServedAs(task.user, GoalStatus)
        /\ NotBegun => served[task.user] = NotServed
        /\ ToDo("verify") => served[task.user].key # rows[task.user].key

CredentialKnown ==
    ~Idle =>
        /\ task.before.rows.status = "active" /\ task.user \notin unresolved
           /\ (task.kind = "delete" /\ Forwards => ToDo("portal"))
           => credential[task.user] # "none"
        /\ task.kind = "create" /\ Forwards /\ ~ToDo("credential")
           => credential[task.user] # "none"

(* As a user is outside an operation.                                      *)
Clean(u) ==
    /\ rows[u].status = "active" => credential[u] # "none"
    /\ AcceptedAs(u, rows[u].status)
    /\ ServedAs(u, rows[u].status)

OthersClean == \A u \in Person \ unresolved : Idle \/ u # task.user => Clean(u)

UsersInv == /\ UserTypes /\ KeysIssued /\ TaskKnown /\ RowsKnown /\ KeyKnown
            /\ AcceptedKnown /\ ServedKnown /\ CredentialKnown /\ OthersClean

-----------------------------------------------------------------------------
(***************************************************************************)
(* How the steps change what is left of the operation.                     *)
(***************************************************************************)

(* A task n is t, the plan and the fields named apart.                     *)
Kept(n, t) == n \in Tasks /\ n.kind = t.kind /\ n.user = t.user /\ n.before = t.before

(* The operation, its direction and its memory stay.                       *)
SameTask == /\ task'.kind = task.kind /\ task'.user = task.user
            /\ task'.mode = task.mode /\ task'.failed = task.failed
            /\ task'.before = task.before

LEMMA TaskFacts ==
  ASSUME TaskKnown
  PROVE  PlanFacts(task.plan, task.kind, task.mode, task.failed)
BY PlansKnown DEF TaskKnown

LEMMA SyncedTask ==
  ASSUME TaskKnown, task' = [task EXCEPT !.synced = TRUE]
  PROVE  TaskKnown' /\ SameTask /\ task'.plan = task.plan
<1>1. task \in Tasks
  BY DEF TaskKnown
<1>2. task' \in Tasks /\ SameTask /\ task'.plan = task.plan
  <2>1. /\ Kept(task', task) /\ task'.plan = task.plan
        /\ task'.mode = task.mode /\ task'.failed = task.failed
    BY <1>1 DEF Kept, Tasks
  <2> QED BY <2>1, Zenon DEF SameTask, Kept
<1> QED BY <1>2 DEF TaskKnown, SameTask, Idle

LEMMA Advanced ==
  ASSUME TaskKnown, NEW step, At(step), task' = Advance
  PROVE  /\ TaskKnown' /\ SameTask /\ ToDo(step)
         /\ \A s : ToDo(s)' <=> ToDo(s) /\ s # step
<1>1. PlanFacts(task.plan, task.kind, task.mode, task.failed)
  BY TaskFacts
<1>2. First(task.plan, step)
  BY DEF At, First
<1>3. Met(Tail(task.plan), task.kind, task.mode, task.failed)
  BY <1>1, <1>2 DEF PlanFacts, First
<1>4. Tail(task.plan) \in Plans
  <2>1. PlanFacts(Tail(task.plan), task.kind, task.mode, task.failed)
    BY <1>3, PlansKnown
  <2> QED BY <2>1 DEF PlanFacts
<1>5. task' \in Tasks /\ SameTask /\ task'.plan = Tail(task.plan)
  <2>1. task' = [task EXCEPT !.plan = Tail(task.plan), !.synced = FALSE]
    BY DEF Advance
  <2>2. task \in Tasks
    BY DEF TaskKnown
  <2>3. /\ Kept(task', task) /\ task'.plan = Tail(task.plan)
        /\ task'.mode = task.mode /\ task'.failed = task.failed
    BY ONLY <1>4, <2>1, <2>2 DEF Kept, Tasks
  <2> QED BY <2>3, Zenon DEF SameTask, Kept
<1>6. TaskKnown'
  BY <1>3, <1>5 DEF TaskKnown, SameTask, Idle
<1>7. ToDo(step) /\ \A s : ToDo(s)' <=> ToDo(s) /\ s # step
  BY <1>1, <1>2, <1>5 DEF PlanFacts, First, ToDo
<1> QED BY <1>5, <1>6, <1>7

(* A failing step forward starts the compensation from its beginning.      *)
LEMMA Compensating ==
  ASSUME TaskKnown, task.plan # <<>>, Forwards, task' = Failure
  PROVE  /\ TaskKnown' /\ task'.kind = task.kind /\ task'.user = task.user
         /\ task'.before = task.before /\ task'.mode = "rollback" /\ ~task'.failed
         /\ ToDo("rows")' /\ ~ToDo("verify")'
         /\ IF task.kind = "create" /\ At("credential")
              THEN ~ToDo("render")' /\ ~ToDo("publish")'
              ELSE ToDo("publish")' /\ (ToDo("render")' <=>
                            task.kind \in {"create", "revoke", "delete"})
<1> DEFINE q == IF task.kind = "create" /\ At("credential")
                  THEN <<"rows">> ELSE Rollback[task.kind]
<1>1. task.kind \in Kinds /\ ~task.failed
  BY TaskFacts DEF PlanFacts, Kinds, Forwards
<1> DEFINE Ahead ==
      /\ Left(q, "rows") /\ ~Left(q, "verify")
      /\ IF task.kind = "create" /\ At("credential")
           THEN ~Left(q, "render") /\ ~Left(q, "publish")
           ELSE Left(q, "publish") /\ (Left(q, "render") <=>
                    task.kind \in {"create", "revoke", "delete"})
<1>2. Met(q, task.kind, "rollback", task.failed) /\ Ahead
  <2>1. CASE task.kind = "create" /\ At("credential")
    <3>1. q = <<"rows">>
      BY <2>1
    <3>2. Met(q, task.kind, "rollback", task.failed)
      BY <1>1, <2>1, <3>1 DEF Met
    <3> HIDE DEF q
    <3>3. \A s : Left(q, s) <=> s \in {"rows"}
      BY ONLY <3>1, Shapes DEF Shape
    <3>4. Ahead
      BY <2>1, <3>3
    <3> HIDE DEF Ahead
    <3> QED BY <3>2, <3>4
  <2>2. CASE task.kind = "create" /\ ~At("credential")
    <3>1. q = <<"rows", "credential", "internal", "render", "publish">>
      BY <2>2 DEF Rollback, RollbackCreation
    <3>2. Met(q, task.kind, "rollback", task.failed)
      BY <1>1, <2>2, <3>1 DEF Met
    <3> HIDE DEF q
    <3>3. \A s : Left(q, s) <=> s \in {"rows", "credential", "internal", "render", "publish"}
      BY ONLY <3>1, Shapes DEF Shape
    <3>4. Ahead
      BY <2>2, <3>3
    <3> HIDE DEF Ahead
    <3> QED BY <3>2, <3>4
  <2>3. CASE task.kind = "revoke"
    <3>1. q = <<"rows", "internal", "render", "publish">>
      BY <2>3 DEF Rollback, RollbackRevocation
    <3>2. Met(q, task.kind, "rollback", task.failed)
      BY <1>1, <2>3, <3>1 DEF Met
    <3> HIDE DEF q
    <3>3. \A s : Left(q, s) <=> s \in {"rows", "internal", "render", "publish"}
      BY ONLY <3>1, Shapes DEF Shape
    <3>4. Ahead
      BY <2>3, <3>3
    <3> HIDE DEF Ahead
    <3> QED BY <3>2, <3>4
  <2>4. CASE task.kind = "delete"
    <3>1. q = <<"rows", "render", "publish">>
      BY <2>4 DEF Rollback, RollbackDeletion
    <3>2. Met(q, task.kind, "rollback", task.failed)
      BY <1>1, <2>4, <3>1 DEF Met
    <3> HIDE DEF q
    <3>3. \A s : Left(q, s) <=> s \in {"rows", "render", "publish"}
      BY ONLY <3>1, Shapes DEF Shape
    <3>4. Ahead
      BY <2>4, <3>3
    <3> HIDE DEF Ahead
    <3> QED BY <3>2, <3>4
  <2>5. CASE task.kind \in {"rotate", "assign"}
    <3>1. q = <<"rows", "publish">>
      BY <2>5 DEF Rollback, RollbackRotation
    <3>2. Met(q, task.kind, "rollback", task.failed)
      BY <1>1, <2>5, <3>1 DEF Met
    <3> HIDE DEF q
    <3>3. \A s : Left(q, s) <=> s \in {"rows", "publish"}
      BY ONLY <3>1, Shapes DEF Shape
    <3>4. Ahead
      BY <2>5, <3>3
    <3> HIDE DEF Ahead
    <3> QED BY <3>2, <3>4
  <2> QED BY <1>1, <2>1, <2>2, <2>3, <2>4, <2>5 DEF Kinds
<1>3. q \in Plans
  BY <1>2, PlansKnown DEF PlanFacts
<1>4. task' = [task EXCEPT !.mode = "rollback", !.synced = FALSE, !.plan = q]
  BY DEF Failure, Forwards
<1> HIDE DEF q
<1>5. /\ task' \in Tasks /\ task'.kind = task.kind /\ task'.user = task.user
      /\ task'.plan = q /\ task'.mode = "rollback" /\ task'.failed = task.failed
      /\ task'.before = task.before
  <2>1. "rollback" \in {"forward", "rollback"}
    OBVIOUS
  <2>2. task \in Tasks
    BY DEF TaskKnown
  <2>3. /\ Kept(task', task) /\ task'.plan = q
        /\ task'.mode = "rollback" /\ task'.failed = task.failed
    BY ONLY <1>3, <1>4, <2>2 DEF Kept, Tasks
  <2> QED BY <2>3, Zenon DEF Kept
<1>6. TaskKnown'
  BY <1>2, <1>5 DEF TaskKnown, Idle
<1> QED BY <1>1, <1>2, <1>5, <1>6 DEF ToDo

(* A failing compensation has nothing left to restore but, at most, the    *)
(* credential of a user whose rows and route are restored.                 *)
LEMMA Abandoning ==
  ASSUME TaskKnown, task.plan # <<>>, ~Forwards, task' = Failure
  PROVE  /\ TaskKnown' /\ task'.kind = task.kind /\ task'.user = task.user
         /\ task'.before = task.before /\ task'.mode = task.mode /\ task'.failed
         /\ ~ToDo("rows")' /\ (ToDo("internal")' => ToDo("internal") /\ ~ToDo("rows"))
<1> DEFINE q == IF At("credential") THEN Tail(task.plan)
                  ELSE IF Planned("credential") THEN <<"credential">> ELSE <<>>
<1>1. task.kind \in Kinds /\ task.mode = "rollback"
  BY TaskFacts DEF PlanFacts, Kinds, Forwards
<1>2. task' = [task EXCEPT !.failed = TRUE, !.synced = FALSE, !.plan = q]
  BY DEF Failure, Forwards
<1>3. /\ At("credential") => q = Tail(task.plan)
      /\ ~At("credential") /\ Planned("credential") => q = <<"credential">>
      /\ ~At("credential") /\ ~Planned("credential") => q = <<>>
  OBVIOUS
<1> HIDE DEF q
<1>4. /\ Met(q, task.kind, "rollback", TRUE) /\ ~Left(q, "rows")
      /\ Left(q, "internal") => Left(task.plan, "internal") /\ ~Left(task.plan, "rows")
  <2>1. CASE At("credential")
    <3>1. First(task.plan, "credential") /\ q = Tail(task.plan)
      BY <1>3, <2>1 DEF At, First
    <3>2. \/ task.plan = <<"credential", "internal", "render", "publish">>
          \/ task.plan = <<"credential">>
      BY <1>1, <3>1, Shapes DEF TaskKnown, Met, First, Shape
    <3>3. Left(task.plan, "credential")
      BY <3>1, TaskFacts DEF PlanFacts
    <3>4. task.kind = "create"
      BY <3>3, TaskFacts DEF PlanFacts
    <3>5. q = <<"internal", "render", "publish">> \/ q = <<>>
      BY <3>1, <3>2, Shapes DEF Shape
    <3>6. Met(q, task.kind, "rollback", TRUE)
      BY <1>1, <3>4, <3>5 DEF Met
    <3> QED BY <3>1, <3>6, TaskFacts DEF PlanFacts, First
  <2>2. CASE ~At("credential") /\ Planned("credential")
    <3>1. q = <<"credential">> /\ task.kind = "create"
      BY <1>3, <2>2, TaskFacts DEF PlanFacts, Planned, Left
    <3>2. \A s : Left(q, s) <=> s \in {"credential"}
      BY <3>1, Shapes DEF Shape
    <3>3. Met(q, task.kind, "rollback", TRUE)
      BY <3>1 DEF Met
    <3>4. ~Left(q, "rows") /\ ~Left(q, "internal")
      BY <3>2
    <3> QED BY <3>3, <3>4, Zenon
  <2>3. CASE ~At("credential") /\ ~Planned("credential")
    BY <1>1, <1>3, <2>3, NothingLeft DEF Met
  <2> QED BY <2>1, <2>2, <2>3
<1>5. q \in Plans
  BY <1>4, PlansKnown DEF PlanFacts
<1>6. /\ task' \in Tasks /\ task'.kind = task.kind /\ task'.user = task.user
      /\ task'.plan = q /\ task'.mode = task.mode /\ task'.failed
      /\ task'.before = task.before
  <2>1. task \in Tasks
    BY DEF TaskKnown
  <2>2. /\ Kept(task', task) /\ task'.plan = q
        /\ task'.mode = task.mode /\ task'.failed
    BY ONLY <1>2, <1>5, <2>1 DEF Kept, Tasks
  <2> QED BY <2>2, Zenon DEF Kept
<1>7. task'.failed = TRUE
  BY <1>6 DEF Tasks
<1>8. TaskKnown'
  BY <1>1, <1>4, <1>6, <1>7 DEF TaskKnown, Idle
<1> QED BY <1>4, <1>6, <1>8 DEF ToDo

LEMMA Begun ==
  ASSUME UserTypes, NEW u \in Person, NEW kind \in Kinds, Start(kind, u)
  PROVE  /\ TaskKnown' /\ ~Idle' /\ task'.kind = kind /\ task'.user = u
         /\ task'.mode = "forward" /\ ~task'.failed
         /\ task'.before.rows = rows[u] /\ (task'.before.routed <=> u \in routed)
         /\ task'.before.internal = internal[u]
         /\ task'.before.credential = credential[u]
         /\ ~ToDo("rows")' /\ ToDo("publish")'
         /\ (ToDo("render")' <=> kind \in {"create", "revoke", "delete"})
         /\ (ToDo("verify")' <=> kind = "create")
         /\ (ToDo("credential")' <=> kind = "create")
         /\ (ToDo("portal")' <=> kind = "delete")
<1> DEFINE q == Forward[kind]
<1> DEFINE Ahead ==
      /\ ~Left(q, "rows") /\ Left(q, "publish")
      /\ (Left(q, "render") <=> kind \in {"create", "revoke", "delete"})
      /\ (Left(q, "verify") <=> kind = "create")
      /\ (Left(q, "credential") <=> kind = "create")
      /\ (Left(q, "portal") <=> kind = "delete")
<1>1. Met(q, kind, "forward", FALSE) /\ Ahead
  <2>1. CASE kind = "create"
    <3>1. q = <<"credential", "render", "verify", "publish">>
      BY <2>1 DEF Forward, CreateUser
    <3>2. Met(q, kind, "forward", FALSE)
      BY <2>1, <3>1 DEF Met
    <3> HIDE DEF q
    <3>3. \A s : Left(q, s) <=> s \in {"credential", "render", "verify", "publish"}
      BY ONLY <3>1, Shapes DEF Shape
    <3>4. Ahead
      BY <2>1, <3>3
    <3> HIDE DEF Ahead
    <3> QED BY <3>2, <3>4
  <2>2. CASE kind = "revoke"
    <3>1. q = <<"publish", "render">>
      BY <2>2 DEF Forward, RevokeUser
    <3>2. Met(q, kind, "forward", FALSE)
      BY <2>2, <3>1 DEF Met
    <3> HIDE DEF q
    <3>3. \A s : Left(q, s) <=> s \in {"publish", "render"}
      BY ONLY <3>1, Shapes DEF Shape
    <3>4. Ahead
      BY <2>2, <3>3
    <3> HIDE DEF Ahead
    <3> QED BY <3>2, <3>4
  <2>3. CASE kind = "delete"
    <3>1. q = <<"publish", "render", "portal">>
      BY <2>3 DEF Forward, DeleteUser
    <3>2. Met(q, kind, "forward", FALSE)
      BY <2>3, <3>1 DEF Met
    <3> HIDE DEF q
    <3>3. \A s : Left(q, s) <=> s \in {"publish", "render", "portal"}
      BY ONLY <3>1, Shapes DEF Shape
    <3>4. Ahead
      BY <2>3, <3>3
    <3> HIDE DEF Ahead
    <3> QED BY <3>2, <3>4
  <2>4. CASE kind \in {"rotate", "assign"}
    <3>1. q = <<"publish">>
      BY <2>4 DEF Forward, RotateUserKey
    <3>2. Met(q, kind, "forward", FALSE)
      BY <2>4, <3>1 DEF Met
    <3> HIDE DEF q
    <3>3. \A s : Left(q, s) <=> s \in {"publish"}
      BY ONLY <3>1, Shapes DEF Shape
    <3>4. Ahead
      BY <2>4, <3>3
    <3> HIDE DEF Ahead
    <3> QED BY <3>2, <3>4
  <2> QED BY <2>1, <2>2, <2>3, <2>4 DEF Kinds
<1>2. q \in Plans
  BY <1>1, PlansKnown DEF PlanFacts
<1>3. task' = [kind |-> kind, user |-> u, plan |-> q, mode |-> "forward", synced |-> FALSE,
               failed |-> FALSE, before |-> Before(u)]
  BY DEF Start, NoTask
<1>4. Before(u) \in Memories
  BY DEF Before, Memories, UserTypes, Rows, Keys
<1> HIDE DEF q
<1>5. task' \in Tasks
  BY <1>2, <1>3, <1>4 DEF Tasks
<1>6. /\ task'.kind = kind /\ task'.user = u /\ task'.plan = q /\ task'.mode = "forward"
      /\ task'.failed = FALSE /\ task'.before = Before(u)
  BY <1>3
<1>7. TaskKnown' /\ ~Idle'
  BY <1>1, <1>5, <1>6 DEF TaskKnown, Idle, Kinds
<1>8. /\ Before(u).rows = rows[u] /\ (Before(u).routed <=> u \in routed)
      /\ Before(u).internal = internal[u] /\ Before(u).credential = credential[u]
  BY DEF Before
<1> QED BY <1>1, <1>6, <1>7, <1>8 DEF ToDo

-----------------------------------------------------------------------------
(***************************************************************************)
(* Steps that change no table.                                             *)
(***************************************************************************)

LEMMA ActiveUsersKnown == ASSUME UserTypes PROVE ActiveUsers \subseteq Person
BY DEF ActiveUsers

(* A credential may be set, not removed.                                   *)
LEMMA Quiet ==
  ASSUME UsersInv,
         UNCHANGED <<rows, routed, internal, accepted, served, task, issued, unresolved>>,
         credential' \in [Person -> Credentials],
         \A u \in Person : credential[u] # "none" => credential'[u] # "none",
         scan' \in [Peer -> Scans], login' \subseteq Person
  PROVE  UsersInv'
<1>1. UserTypes'
  BY DEF UsersInv, UserTypes
<1>2. KeysIssued' /\ TaskKnown' /\ RowsKnown' /\ KeyKnown'
  BY DEF UsersInv, KeysIssued, TaskKnown, RowsKnown, KeyKnown, Idle, Forwards, ToDo
<1>3. AcceptedKnown' /\ ServedKnown'
  BY DEF UsersInv, AcceptedKnown, ServedKnown, Idle, Forwards, ToDo, Certain, NotBegun,
         GoalStatus, AcceptedAs, ServedAs, AcceptsOwn, AcceptsNone
<1>4. CredentialKnown'
  BY DEF UsersInv, CredentialKnown, TaskKnown, Idle, Forwards, ToDo
<1>5. OthersClean'
  BY DEF UsersInv, OthersClean, UserTypes, Idle, Clean, AcceptedAs, ServedAs, AcceptsOwn,
         AcceptsNone
<1> QED BY <1>1, <1>2, <1>3, <1>4, <1>5 DEF UsersInv

LEMMA ReadUsersKeeps ==
  ASSUME UsersInv, NEW p \in Peer, ReadUsers(p) PROVE UsersInv'
<1>1. scan' \in [Peer -> Scans]
  BY ActiveUsersKnown DEF UsersInv, UserTypes, ReadUsers, Scans
<1> QED BY <1>1, Quiet DEF ReadUsers, tables, UsersInv, UserTypes

LEMMA PeerFailsKeeps ==
  ASSUME UsersInv, NEW p \in Peer, PeerFails(p) PROVE UsersInv'
<1>1. scan' \in [Peer -> Scans]
  BY DEF UsersInv, UserTypes, PeerFails, Scans
<1> QED BY <1>1, Quiet DEF PeerFails, tables, UsersInv, UserTypes

LEMMA PasswordsKeep ==
  ASSUME UsersInv, NEW u \in Person,
         ResetUserPassword(u) \/ AuthenticatePasswordChange(u) \/ ChangePassword(u)
  PROVE  UsersInv'
<1>1. CASE ResetUserPassword(u)
  BY <1>1, Quiet DEF ResetUserPassword, tables, UsersInv, UserTypes, Credentials
<1>2. CASE AuthenticatePasswordChange(u)
  BY <1>2, Quiet DEF AuthenticatePasswordChange, tables, UsersInv, UserTypes
<1>3. CASE ChangePassword(u)
  BY <1>3, Quiet DEF ChangePassword, tables, UsersInv, UserTypes, Credentials
<1> QED BY <1>1, <1>2, <1>3

-----------------------------------------------------------------------------
(***************************************************************************)
(* The internal keys are reconciled.                                       *)
(***************************************************************************)

LEMMA Reconciled ==
  ASSUME UserTypes, NEW users \in SUBSET Person, EnsureInternalKeys(users)
  PROVE  /\ internal' \in [Person -> Keys] /\ issued' \in [Person -> Issues]
         /\ \A u \in Person : /\ internal[u].key # 0 => internal'[u].key = internal[u].key
                              /\ issued'[u].external = issued[u].external
<1> DEFINE secret(u) == IF u \in Missing(users) THEN issued[u].internal + 1
                                                ELSE internal[u].key
           used(u) == u \in users
<1>1. /\ internal' = [u \in Person |-> [key |-> secret(u), active |-> used(u)]]
      /\ \A u \in Person : used(u) \in BOOLEAN
  BY DEF EnsureInternalKeys
<1>2. \A u \in Person : secret(u) \in Nat /\ (internal[u].key # 0 => secret(u) = internal[u].key)
  BY DEF UserTypes, Issues, Keys, Missing
<1> HIDE DEF secret, used
<1>3. \A u \in Person : internal'[u].key = secret(u)
  BY <1>1
<1>4. internal' \in [Person -> Keys]
  BY <1>1, <1>2 DEF Keys
<1>5. \A u \in Person : internal[u].key # 0 => internal'[u].key = internal[u].key
  BY <1>2, <1>3
<1>6. issued' = [u \in Person |-> IF u \in Missing(users)
                     THEN [issued[u] EXCEPT !.internal = @ + 1] ELSE issued[u]]
  BY DEF EnsureInternalKeys
<1>7. \A u \in Person : issued'[u] \in Issues /\ issued'[u].external = issued[u].external
  BY <1>6 DEF UserTypes, Issues
<1> QED BY <1>4, <1>5, <1>6, <1>7

(* Who is to be active and not published is active already.                *)
LEMMA GoalActive ==
  ASSUME UsersInv, ~Idle, ~ToDo("publish"), GoalStatus = "active"
  PROVE  rows[task.user].status = "active"
<1>1. CASE ToDo("rows")
  BY <1>1, TaskFacts DEF UsersInv, TaskKnown, RowsKnown, GoalStatus, PlanFacts, ToDo, Kinds, Idle
<1> QED BY <1>1 DEF GoalStatus

(* Whoever does it, and for whichever users.                               *)
LEMMA KeysReconciled ==
  ASSUME UsersInv, NEW users \in SUBSET Person, EnsureInternalKeys(users),
         UNCHANGED <<rows, routed, credential, accepted, served, login, unresolved>>,
         scan' \in [Peer -> Scans],
         TaskKnown', SameTask, task'.plan = task.plan
  PROVE  UsersInv'
<1>1. UserTypes'
  BY Reconciled DEF UsersInv, UserTypes
<1>2. \A u \in Person : /\ internal[u].key # 0 => internal'[u].key = internal[u].key
                        /\ issued'[u].external = issued[u].external
  BY Reconciled DEF UsersInv
<1>3. \A s : ToDo(s)' <=> ToDo(s)
  BY DEF ToDo
<1>4. KeysIssued'
  BY <1>2 DEF UsersInv, KeysIssued
<1>5. RowsKnown'
  BY <1>2, <1>3 DEF UsersInv, RowsKnown, TaskKnown, SameTask, Idle, Forwards
<1>6. KeyKnown'
  BY <1>2, <1>3 DEF UsersInv, KeyKnown, TaskKnown, SameTask, Idle, Forwards
<1>7. \A u \in Person : /\ AcceptsOwn(u) => AcceptsOwn(u)'
                        /\ AcceptsNone(u) => AcceptsNone(u)'
  <2>1. ASSUME NEW u \in Person, AcceptsOwn(u) PROVE AcceptsOwn(u)'
    <3>1. internal[u].key # 0
      BY <2>1, UserLifecycleAssumption DEF AcceptsOwn, UsersInv, UserTypes
    <3> QED BY <1>2, <2>1, <3>1 DEF AcceptsOwn
  <2> QED BY <2>1 DEF AcceptsNone
<1>8. \A u \in Person : \A status : ServedAs(u, status) =>
          \/ ServedAs(u, status)'
          \/ status = "active" /\ rows[u].status # "active"
  <2> SUFFICES ASSUME NEW u \in Person, NEW status, ServedAs(u, status),
                      status = "active" => rows[u].status = "active"
               PROVE  ServedAs(u, status)'
    OBVIOUS
  <2>1. CASE status = "active" /\ u \in routed
    <3>1. served[u].internal = internal[u].key /\ served[u].key = rows[u].key
      BY <2>1 DEF ServedAs
    <3>2. internal[u].key # 0
      BY <2>1, <3>1 DEF UsersInv, KeysIssued
    <3> QED BY <1>2, <2>1, <3>2 DEF ServedAs
  <2> QED BY <2>1 DEF ServedAs
<1>9. AcceptedKnown'
  BY <1>3, <1>7 DEF UsersInv, AcceptedKnown, TaskKnown, SameTask, Idle, Forwards,
     Certain, NotBegun, GoalStatus, AcceptedAs
<1>10. ServedKnown'
  <2> SUFFICES ASSUME ~Idle, ~task.failed PROVE ServedKnown'
    BY DEF ServedKnown, SameTask, Idle
  <2>1. ASSUME Certain, ~ToDo("publish") PROVE ServedAs(task.user, GoalStatus)'
    <3>1. ServedAs(task.user, GoalStatus)
      BY <2>1 DEF UsersInv, ServedKnown
    <3>2. GoalStatus' = GoalStatus /\ task.user \in Person
      BY <1>3 DEF GoalStatus, SameTask, UsersInv, TaskKnown
    <3> QED BY <1>8, <2>1, <3>1, <3>2, GoalActive DEF ServedAs, SameTask
  <2> QED BY <1>3, <2>1 DEF UsersInv, ServedKnown, SameTask, Idle, Forwards, Certain, NotBegun
<1>11. CredentialKnown'
  BY <1>3 DEF UsersInv, CredentialKnown, TaskKnown, SameTask, Idle, Forwards
<1>12. OthersClean'
  BY <1>7, <1>8 DEF UsersInv, UserTypes, OthersClean, SameTask, Idle, Clean, AcceptedAs
<1> QED BY <1>1, <1>4, <1>5, <1>6, <1>9, <1>10, <1>11, <1>12 DEF UsersInv

LEMMA ReconcileKeeps ==
  ASSUME UsersInv, NEW p \in Peer, Reconcile(p) PROVE UsersInv'
<1>1. scan[p].users \in SUBSET Person /\ scan' \in [Peer -> Scans]
  BY DEF UsersInv, UserTypes, Reconcile, Scans
<1>2. TaskKnown' /\ SameTask /\ task'.plan = task.plan
  BY DEF UsersInv, TaskKnown, Reconcile, SameTask, Idle
<1> QED BY <1>1, <1>2, KeysReconciled DEF Reconcile

LEMMA SyncInternalKeysKeeps ==
  ASSUME UsersInv, SyncInternalKeys PROVE UsersInv'
<1>1. TaskKnown' /\ SameTask /\ task'.plan = task.plan
  BY SyncedTask DEF UsersInv, SyncInternalKeys
<1>2. ActiveUsers \in SUBSET Person /\ scan' \in [Peer -> Scans]
  BY ActiveUsersKnown DEF UsersInv, UserTypes, SyncInternalKeys
<1> QED BY <1>1, <1>2, KeysReconciled DEF SyncInternalKeys

-----------------------------------------------------------------------------
(***************************************************************************)
(* A failing step.                                                         *)
(***************************************************************************)

(* What the step itself wrote, it wrote to a list or snapshot that the     *)
(* compensation writes again.                                              *)
LEMMA FailureKnown ==
  ASSUME UsersInv, task.plan # <<>>, task' = Failure,
         UNCHANGED <<rows, routed, internal, credential, issued, unresolved>>,
         accepted' = accepted \/ At("render"), served' = served \/ At("publish")
  PROVE  /\ TaskKnown' /\ RowsKnown' /\ KeyKnown' /\ AcceptedKnown' /\ ServedKnown'
         /\ CredentialKnown' /\ task'.user = task.user /\ ~Idle /\ ~Idle'
<1> DEFINE u == task.user
<1>1. ~Idle /\ u \in Person /\ task.kind \in Kinds
  BY TaskFacts DEF UsersInv, TaskKnown, PlanFacts, Idle, Kinds
<1>2. CASE Forwards
  <2>1. /\ TaskKnown' /\ task'.kind = task.kind /\ task'.user = task.user
        /\ task'.before = task.before /\ ~Forwards' /\ ~task'.failed
        /\ ToDo("rows")' /\ ~ToDo("verify")'
        /\ IF task.kind = "create" /\ At("credential")
             THEN ~ToDo("render")' /\ ~ToDo("publish")'
             ELSE ToDo("publish")' /\ (ToDo("render")' <=>
                           task.kind \in {"create", "revoke", "delete"})
    BY <1>2, Compensating DEF UsersInv, Forwards
  <2>2. ~task.failed /\ ~ToDo("rows") /\ ~Idle'
    BY <1>1, <1>2, <2>1, TaskFacts DEF UsersInv, PlanFacts, Forwards, ToDo, Idle
  <2>3. RowsKnown'
    BY <1>1, <1>2, <2>1 DEF UsersInv, RowsKnown
  <2>4. KeyKnown'
    BY <1>1, <1>2, <2>1 DEF UsersInv, KeyKnown
  <2>5. CredentialKnown'
    <3>1. task.kind = "delete" => ToDo("portal")
      BY <1>2, TaskFacts DEF UsersInv, PlanFacts, Forwards, ToDo
    <3> QED BY <1>1, <1>2, <2>1, <3>1 DEF UsersInv, CredentialKnown
  <2>6. CASE task.kind = "create" /\ At("credential")
    <3>1. ToDo("credential") /\ ~At("render") /\ ~At("publish")
      BY <2>6, TaskFacts DEF UsersInv, PlanFacts, First, At, ToDo
    <3>2. GoalStatus' # "active"
      BY <1>1, <2>1, <2>6 DEF UsersInv, RowsKnown, GoalStatus
    <3>3. u \notin unresolved => NotBegun
      BY <1>2, <2>6, <3>1 DEF NotBegun
    <3>4. AcceptedKnown'
      BY <1>1, <2>1, <2>2, <3>1, <3>2, <3>3
      DEF UsersInv, AcceptedKnown, Certain, NotBegun, AcceptedAs, AcceptsNone
    <3>5. ServedKnown'
      BY <1>1, <2>1, <2>2, <3>1, <3>2, <3>3
      DEF UsersInv, ServedKnown, Certain, NotBegun, ServedAs
    <3> QED BY <1>1, <2>1, <2>2, <2>3, <2>4, <2>5, <3>4, <3>5
  <2>7. CASE ~(task.kind = "create" /\ At("credential"))
    <3>1. ServedKnown'
      BY <2>1, <2>7 DEF ServedKnown, NotBegun
    <3>2. AcceptedKnown'
      <4>1. ASSUME task.kind \in {"rotate", "assign"}, Certain'
            PROVE  AcceptedAs(u, GoalStatus)'
        <5>1. ~ToDo("render") /\ ~At("render")
          BY <4>1, TaskFacts DEF UsersInv, PlanFacts, First, At, ToDo
        <5>2. Certain
          BY <2>1, <4>1 DEF Certain
        <5>3. GoalStatus = "active" /\ GoalStatus' = "active"
          BY <1>1, <1>2, <2>1, <2>2, <4>1 DEF UsersInv, RowsKnown, GoalStatus
        <5>4. AcceptsOwn(task.user)
          BY <1>1, <2>2, <5>1, <5>2, <5>3 DEF UsersInv, AcceptedKnown, AcceptedAs
        <5> QED BY <2>1, <5>1, <5>3, <5>4 DEF AcceptedAs, AcceptsOwn
      <4> QED BY <1>1, <2>1, <2>7, <4>1 DEF AcceptedKnown, NotBegun, Kinds
    <3> QED BY <1>1, <2>1, <2>2, <2>3, <2>4, <2>5, <3>1, <3>2
  <2> QED BY <2>6, <2>7
<1>3. CASE ~Forwards
  <2>1. /\ TaskKnown' /\ task'.kind = task.kind /\ task'.user = task.user
        /\ task'.before = task.before /\ ~Forwards' /\ task'.failed
        /\ ~ToDo("rows")' /\ (ToDo("internal")' => ToDo("internal") /\ ~ToDo("rows"))
    BY <1>3, Abandoning DEF UsersInv, Forwards
  <2>2. ~Idle'
    BY <1>1, <2>1 DEF Idle
  <2>3. RowsKnown'
    BY <1>1, <1>3, <2>1 DEF UsersInv, RowsKnown
  <2>4. KeyKnown'
    BY <1>1, <1>3, <2>1 DEF UsersInv, KeyKnown
  <2>5. CredentialKnown'
    BY <1>1, <1>3, <2>1 DEF UsersInv, CredentialKnown
  <2>6. AcceptedKnown' /\ ServedKnown'
    BY <2>1 DEF AcceptedKnown, ServedKnown
  <2> QED BY <1>1, <2>1, <2>2, <2>3, <2>4, <2>5, <2>6
<1> QED BY <1>2, <1>3

LEMMA StepFailsKeeps ==
  ASSUME UsersInv, StepFails PROVE UsersInv'
<1>1. /\ TaskKnown' /\ RowsKnown' /\ KeyKnown' /\ AcceptedKnown' /\ ServedKnown'
      /\ CredentialKnown' /\ task'.user = task.user /\ ~Idle /\ ~Idle'
  BY FailureKnown DEF StepFails, tables
<1>2. UserTypes' /\ KeysIssued'
  BY DEF UsersInv, UserTypes, KeysIssued, StepFails, tables
<1>3. OthersClean'
  BY <1>1 DEF UsersInv, OthersClean, Clean, AcceptedAs, ServedAs, AcceptsOwn, AcceptsNone,
     StepFails, tables
<1> QED BY <1>1, <1>2, <1>3 DEF UsersInv

-----------------------------------------------------------------------------
(***************************************************************************)
(* Key lists and snapshot are written.                                     *)
(***************************************************************************)

(* A step that succeeds, other than the restoring of the rows.             *)
LEMMA AdvanceKnown ==
  ASSUME UsersInv, NEW step, step # "rows", At(step), task' = Advance,
         UNCHANGED <<rows, routed, issued, unresolved>>
  PROVE  /\ TaskKnown' /\ SameTask /\ ToDo(step) /\ ~Idle /\ ~Idle' /\ task.user \in Person
         /\ \A s : ToDo(s)' <=> ToDo(s) /\ s # step
         /\ RowsKnown' /\ GoalStatus' = GoalStatus /\ (Certain' <=> Certain)
         /\ NotBegun' => NotBegun
         /\ internal' = internal => KeyKnown'
<1>1. /\ TaskKnown' /\ SameTask /\ ToDo(step)
      /\ \A s : ToDo(s)' <=> ToDo(s) /\ s # step
  BY Advanced DEF UsersInv
<1>2. ~Idle /\ ~Idle' /\ task.user \in Person
  BY <1>1, TaskFacts DEF UsersInv, TaskKnown, PlanFacts, Idle, SameTask, At
<1>3. RowsKnown'
  BY <1>1, <1>2 DEF UsersInv, RowsKnown, SameTask, Forwards
<1>4. internal' = internal => KeyKnown'
  BY <1>1, <1>2 DEF UsersInv, KeyKnown, SameTask, Forwards
<1>5. GoalStatus' = GoalStatus
  BY <1>1 DEF GoalStatus, SameTask
<1>6. (Certain' <=> Certain) /\ (NotBegun' => NotBegun)
  BY <1>1 DEF Certain, NotBegun, SameTask, Forwards
<1> QED BY <1>1, <1>2, <1>3, <1>4, <1>5, <1>6

LEMMA VerifyUserKeyKeeps ==
  ASSUME UsersInv, VerifyUserKey PROVE UsersInv'
<1>1. At("verify") /\ task' = Advance /\ UNCHANGED <<rows, routed, internal, credential,
         accepted, served, scan, login, issued, unresolved>>
  BY DEF VerifyUserKey, tables
<1>2. /\ TaskKnown' /\ SameTask /\ ToDo("verify") /\ ~Idle /\ ~Idle' /\ task.user \in Person
      /\ \A s : ToDo(s)' <=> ToDo(s) /\ s # "verify"
      /\ RowsKnown' /\ GoalStatus' = GoalStatus /\ (Certain' <=> Certain)
      /\ NotBegun' => NotBegun
      /\ KeyKnown'
  BY <1>1, AdvanceKnown
<1>3. UserTypes' /\ KeysIssued'
  BY <1>1 DEF UsersInv, UserTypes, KeysIssued
<1>4. AcceptedKnown' /\ ServedKnown'
  BY <1>1, <1>2 DEF UsersInv, AcceptedKnown, ServedKnown, SameTask, AcceptedAs, ServedAs,
     AcceptsOwn, AcceptsNone
<1>5. CredentialKnown'
  BY <1>1, <1>2 DEF UsersInv, CredentialKnown, SameTask, Forwards
<1>6. OthersClean'
  BY <1>1, <1>2 DEF UsersInv, OthersClean, Clean, AcceptedAs, ServedAs, AcceptsOwn,
     AcceptsNone, SameTask
<1> QED BY <1>2, <1>3, <1>4, <1>5, <1>6 DEF UsersInv

(* A key list written completely is as every user's rows require.          *)
LEMMA Rendered ==
  ASSUME UserTypes, KeysComplete
  PROVE  /\ ActiveKeys \in SUBSET (Person \X (Nat \ {0}))
         /\ \A u \in Person : rows[u].status = "active" => <<u, internal[u].key>> \in ActiveKeys
         /\ \A u \in Person, n \in Nat : rows[u].status # "active" => <<u, n>> \notin ActiveKeys
<1>1. \A u \in ActiveUsers : u \in Person /\ internal[u].key \in Nat \ {0}
  BY DEF UserTypes, KeysComplete, ActiveUsers, Keys
<1> QED BY <1>1 DEF ActiveKeys, ActiveUsers

LEMMA RenderKeeps ==
  ASSUME UsersInv, Render PROVE UsersInv'
<1>1. PICK written \in SUBSET CPA :
        /\ accepted' = [a \in CPA |-> IF a \in written THEN ActiveKeys ELSE accepted[a]]
        /\ task' = IF written = CPA THEN Advance ELSE Failure
  BY DEF Render
<1>2. At("render") /\ KeysComplete /\ UNCHANGED <<rows, routed, internal, credential, served,
         scan, login, issued, unresolved>>
  BY DEF Render, tables
<1>3. /\ ActiveKeys \in SUBSET (Person \X (Nat \ {0}))
      /\ \A u \in Person : rows[u].status = "active" => <<u, internal[u].key>> \in ActiveKeys
      /\ \A u \in Person, n \in Nat : rows[u].status # "active" => <<u, n>> \notin ActiveKeys
  BY <1>2, Rendered DEF UsersInv
<1>4. UserTypes' /\ KeysIssued'
  BY <1>1, <1>2, <1>3 DEF UsersInv, UserTypes, KeysIssued
<1>5. \A u \in Person : AcceptedAs(u, rows[u].status) => AcceptedAs(u, rows[u].status)'
  BY <1>1, <1>2, <1>3 DEF AcceptedAs, AcceptsOwn, AcceptsNone
<1>6. task'.user = task.user /\ ~Idle /\ ~Idle' => OthersClean'
  BY <1>2, <1>5 DEF UsersInv, OthersClean, Clean, ServedAs
<1>7. CASE written = CPA
  <2>1. /\ TaskKnown' /\ SameTask /\ ToDo("render") /\ ~Idle /\ ~Idle' /\ task.user \in Person
        /\ \A s : ToDo(s)' <=> ToDo(s) /\ s # "render"
        /\ RowsKnown' /\ GoalStatus' = GoalStatus /\ (Certain' <=> Certain)
        /\ NotBegun' => NotBegun
        /\ KeyKnown'
    BY <1>1, <1>2, <1>7, AdvanceKnown
  <2>2. ~ToDo("rows") /\ ~ToDo("credential")
    BY <1>2, TaskFacts DEF UsersInv, PlanFacts, First, At, ToDo
  <2>3. \A u \in Person : AcceptedAs(u, rows[u].status)'
    BY <1>1, <1>2, <1>3, <1>7 DEF AcceptedAs, AcceptsOwn, AcceptsNone
  <2>4. AcceptedKnown'
    BY <1>2, <2>1, <2>2, <2>3 DEF AcceptedKnown, NotBegun, GoalStatus, SameTask
  <2>5. ServedKnown'
    BY <1>2, <2>1, <2>2 DEF UsersInv, ServedKnown, SameTask, ServedAs
  <2>6. CredentialKnown'
    BY <1>2, <2>1 DEF UsersInv, CredentialKnown, SameTask, Forwards
  <2> QED BY <1>4, <1>6, <2>1, <2>4, <2>5, <2>6 DEF UsersInv, SameTask
<1>8. CASE written # CPA
  <2>1. task.plan # <<>>
    BY <1>2 DEF At
  <2>2. /\ TaskKnown' /\ RowsKnown' /\ KeyKnown' /\ AcceptedKnown' /\ ServedKnown'
        /\ CredentialKnown' /\ task'.user = task.user /\ ~Idle /\ ~Idle'
    BY <1>1, <1>2, <1>8, <2>1, FailureKnown
  <2> QED BY <1>4, <1>6, <2>2 DEF UsersInv
<1> QED BY <1>7, <1>8

(* A snapshot is as every user's rows require.                             *)
LEMMA Published ==
  ASSUME UsersInv, WriteSnapshot, UNCHANGED <<rows, routed, internal, issued>>
  PROVE  /\ served' \in [Person -> Records]
         /\ \A u \in Person : ServedAs(u, rows[u].status)'
         /\ KeysIssued'
<1>1. served' = SnapshotImage /\ KeysComplete
  BY DEF WriteSnapshot
<1>2. \A u \in Person : /\ rows[u].key \in Nat /\ internal[u].key \in Nat
                        /\ rows[u].status = "active" => internal[u].key # 0
  BY <1>1 DEF UsersInv, UserTypes, Rows, Keys, KeysComplete, ActiveUsers
<1>3. served' \in [Person -> Records]
  BY <1>1, <1>2 DEF SnapshotImage, Records, NotServed
<1>4. \A u \in Person : ServedAs(u, rows[u].status)'
  BY <1>1 DEF ServedAs, SnapshotImage
<1>5. KeysIssued'
  BY <1>1, <1>2 DEF UsersInv, UserTypes, KeysIssued, SnapshotImage, NotServed, Issues
<1> QED BY <1>3, <1>4, <1>5

LEMMA PublishKeeps ==
  ASSUME UsersInv, Publish PROVE UsersInv'
<1>1. PICK confirmed \in BOOLEAN : task' = IF confirmed THEN Advance ELSE Failure
  BY DEF Publish
<1>2. At("publish") /\ UNCHANGED <<rows, routed, internal, credential, accepted, scan, login,
         issued, unresolved>>
  BY DEF Publish, tables
<1>3. /\ served' \in [Person -> Records] /\ KeysIssued'
      /\ \A u \in Person : ServedAs(u, rows[u].status)'
  BY <1>2, Published DEF Publish
<1>4. UserTypes'
  BY <1>2, <1>3 DEF UsersInv, UserTypes
<1>5. task'.user = task.user /\ ~Idle /\ ~Idle' => OthersClean'
  BY <1>2, <1>3 DEF UsersInv, UserTypes, OthersClean, Clean, AcceptedAs, AcceptsOwn, AcceptsNone
<1>6. CASE task' = Advance
  <2>1. /\ TaskKnown' /\ SameTask /\ ToDo("publish") /\ ~Idle /\ ~Idle' /\ task.user \in Person
        /\ \A s : ToDo(s)' <=> ToDo(s) /\ s # "publish"
        /\ RowsKnown' /\ GoalStatus' = GoalStatus /\ (Certain' <=> Certain)
        /\ NotBegun' => NotBegun
        /\ KeyKnown'
    BY <1>2, <1>6, AdvanceKnown
  <2>2. ~ToDo("rows") /\ ~ToDo("credential") /\ ~ToDo("verify")
    BY <1>2, TaskFacts DEF UsersInv, PlanFacts, First, At, ToDo
  <2>3. AcceptedKnown'
    BY <1>2, <2>1, <2>2 DEF UsersInv, AcceptedKnown, SameTask, AcceptedAs, AcceptsOwn,
       AcceptsNone
  <2>4. ServedKnown'
    BY <1>2, <1>3, <2>1, <2>2 DEF ServedKnown, NotBegun, GoalStatus, SameTask
  <2>5. CredentialKnown'
    BY <1>2, <2>1 DEF UsersInv, CredentialKnown, SameTask, Forwards
  <2> QED BY <1>3, <1>4, <1>5, <2>1, <2>3, <2>4, <2>5 DEF UsersInv, SameTask
<1>7. CASE task' = Failure
  <2>1. task.plan # <<>>
    BY <1>2 DEF At
  <2>2. /\ TaskKnown' /\ RowsKnown' /\ KeyKnown' /\ AcceptedKnown' /\ ServedKnown'
        /\ CredentialKnown' /\ task'.user = task.user /\ ~Idle /\ ~Idle'
    BY <1>2, <1>7, <2>1, FailureKnown
  <2> QED BY <1>3, <1>4, <1>5, <2>2 DEF UsersInv
<1> QED BY <1>1, <1>6, <1>7

(* A peer publishes in the middle of an operation.                         *)
LEMMA PeerPublishKeeps ==
  ASSUME UsersInv, NEW p \in Peer, PeerPublish(p) PROVE UsersInv'
<1>1. UNCHANGED <<rows, routed, internal, credential, accepted, task, login, issued, unresolved>>
  BY DEF PeerPublish, tables
<1>2. scan' \in [Peer -> Scans]
  BY DEF UsersInv, UserTypes, PeerPublish, Scans
<1>3. CASE ~KeysComplete
  BY <1>1, <1>2, <1>3, Quiet DEF PeerPublish, UsersInv, UserTypes
<1>4. CASE KeysComplete
  <2>1. WriteSnapshot
    BY <1>4 DEF PeerPublish, WriteSnapshot
  <2>2. /\ served' \in [Person -> Records] /\ KeysIssued'
        /\ \A u \in Person : ServedAs(u, rows[u].status)'
    BY <1>1, <2>1, Published
  <2>3. UserTypes'
    BY <1>1, <1>2, <2>2 DEF UsersInv, UserTypes
  <2>4. TaskKnown' /\ RowsKnown' /\ KeyKnown' /\ CredentialKnown'
    BY <1>1 DEF UsersInv, TaskKnown, RowsKnown, KeyKnown, CredentialKnown, Idle, Forwards, ToDo
  <2>5. AcceptedKnown'
    BY <1>1 DEF UsersInv, AcceptedKnown, Idle, Forwards, ToDo, Certain, NotBegun, GoalStatus,
       AcceptedAs, AcceptsOwn, AcceptsNone
  <2>6. ServedKnown'
    <3> SUFFICES ASSUME ~Idle, ~task.failed PROVE ServedKnown'
      BY <1>1 DEF ServedKnown, Idle
    <3> DEFINE u == task.user
    <3>1. u \in Person
      BY DEF UsersInv, TaskKnown
    <3>2. ASSUME task.kind = "create", Forwards \/ ToDo("rows")
          PROVE  served'[u] = NotServed /\ rows[u].key # 0
      BY <1>1, <2>2, <3>1, <3>2 DEF UsersInv, RowsKnown, KeysIssued, ServedAs
    <3>3. ASSUME ~ToDo("publish") PROVE ServedAs(u, GoalStatus)'
      <4>1. CASE ToDo("rows")
        <5>1. task.kind = "create" /\ GoalStatus # "active"
          BY <3>3, <4>1, TaskFacts DEF UsersInv, TaskKnown, PlanFacts, ToDo, Kinds, Idle,
             RowsKnown, GoalStatus
        <5> QED BY <1>1, <3>2, <4>1, <5>1 DEF ServedAs, GoalStatus, ToDo
      <4>2. CASE ~ToDo("rows")
        BY <1>1, <2>2, <3>1, <4>2 DEF GoalStatus, ToDo
      <4> QED BY <4>1, <4>2
    <3>4. ToDo("verify") => task.kind = "create" /\ Forwards
      BY TaskFacts DEF UsersInv, PlanFacts, ToDo, Forwards
    <3> QED BY <1>1, <3>2, <3>3, <3>4 DEF ServedKnown, NotBegun, ToDo, Forwards, NotServed
  <2>7. OthersClean'
    BY <1>1, <2>2 DEF UsersInv, UserTypes, OthersClean, Clean, AcceptedAs, AcceptsOwn,
       AcceptsNone, Idle
  <2> QED BY <2>2, <2>3, <2>4, <2>5, <2>6, <2>7 DEF UsersInv
<1> QED BY <1>3, <1>4

-----------------------------------------------------------------------------
(***************************************************************************)
(* Credentials, and the compensation of the tables.                        *)
(***************************************************************************)

LEMMA SetCredentialKeeps ==
  ASSUME UsersInv, SetCredential PROVE UsersInv'
<1>1. /\ At("credential") /\ task' = Advance
      /\ credential' = [credential EXCEPT ![task.user] =
             IF task.mode = "forward" THEN "initial" ELSE task.before.credential]
      /\ UNCHANGED <<rows, routed, internal, accepted, served, scan, login, issued, unresolved>>
  BY DEF SetCredential, tables
<1>2. /\ TaskKnown' /\ SameTask /\ ToDo("credential") /\ ~Idle /\ ~Idle' /\ task.user \in Person
      /\ \A s : ToDo(s)' <=> ToDo(s) /\ s # "credential"
      /\ RowsKnown' /\ GoalStatus' = GoalStatus /\ (Certain' <=> Certain)
      /\ NotBegun' => NotBegun
      /\ KeyKnown'
  BY <1>1, AdvanceKnown
<1>3. task.kind = "create" /\ task.before.rows.status # "active"
  BY <1>2, TaskFacts DEF UsersInv, PlanFacts, ToDo, RowsKnown
<1>4. task.before.credential \in Credentials
  BY DEF UsersInv, TaskKnown, Tasks, Memories
<1>5. UserTypes' /\ KeysIssued'
  BY <1>1, <1>2, <1>4 DEF UsersInv, UserTypes, KeysIssued, Credentials
<1>6. AcceptedKnown' /\ ServedKnown'
  BY <1>1, <1>2 DEF UsersInv, AcceptedKnown, ServedKnown, SameTask, AcceptedAs, ServedAs,
     AcceptsOwn, AcceptsNone
<1>7. CredentialKnown'
  BY <1>1, <1>2, <1>3 DEF UsersInv, UserTypes, CredentialKnown, SameTask, Forwards
<1>8. OthersClean'
  BY <1>1, <1>2 DEF UsersInv, UserTypes, OthersClean, Clean, AcceptedAs, ServedAs, AcceptsOwn,
     AcceptsNone, SameTask
<1> QED BY <1>2, <1>5, <1>6, <1>7, <1>8 DEF UsersInv

LEMMA DeleteUserStateKeeps ==
  ASSUME UsersInv, DeleteUserState PROVE UsersInv'
<1>1. /\ At("portal") /\ task' = Advance
      /\ credential' = [credential EXCEPT ![task.user] = "none"]
      /\ UNCHANGED <<rows, routed, internal, accepted, served, scan, login, issued, unresolved>>
  BY DEF DeleteUserState, tables
<1>2. /\ TaskKnown' /\ SameTask /\ ToDo("portal") /\ ~Idle /\ ~Idle' /\ task.user \in Person
      /\ \A s : ToDo(s)' <=> ToDo(s) /\ s # "portal"
      /\ RowsKnown' /\ GoalStatus' = GoalStatus /\ (Certain' <=> Certain)
      /\ NotBegun' => NotBegun
      /\ KeyKnown'
  BY <1>1, AdvanceKnown
<1>3. task.kind = "delete" /\ Forwards
  BY <1>2, TaskFacts DEF UsersInv, PlanFacts, ToDo, Forwards
<1>4. UserTypes' /\ KeysIssued'
  BY <1>1, <1>2 DEF UsersInv, UserTypes, KeysIssued, Credentials
<1>5. AcceptedKnown' /\ ServedKnown'
  BY <1>1, <1>2 DEF UsersInv, AcceptedKnown, ServedKnown, SameTask, AcceptedAs, ServedAs,
     AcceptsOwn, AcceptsNone
<1>6. CredentialKnown'
  BY <1>1, <1>2, <1>3 DEF CredentialKnown, SameTask, Forwards
<1>7. OthersClean'
  BY <1>1, <1>2 DEF UsersInv, UserTypes, OthersClean, Clean, AcceptedAs, ServedAs, AcceptsOwn,
     AcceptsNone, SameTask
<1> QED BY <1>2, <1>4, <1>5, <1>6, <1>7 DEF UsersInv

LEMMA RestoreInternalKeyKeeps ==
  ASSUME UsersInv, RestoreInternalKey PROVE UsersInv'
<1>1. /\ At("internal") /\ task' = Advance
      /\ internal' = [internal EXCEPT ![task.user] = task.before.internal]
      /\ UNCHANGED <<rows, routed, credential, accepted, served, scan, login, issued, unresolved>>
  BY DEF RestoreInternalKey
<1>2. /\ TaskKnown' /\ SameTask /\ ToDo("internal") /\ ~Idle /\ ~Idle' /\ task.user \in Person
      /\ \A s : ToDo(s)' <=> ToDo(s) /\ s # "internal"
      /\ RowsKnown' /\ GoalStatus' = GoalStatus /\ (Certain' <=> Certain)
      /\ NotBegun' => NotBegun
  BY <1>1, AdvanceKnown
<1>3. /\ ~Forwards /\ ToDo("render") /\ ToDo("publish") /\ ~ToDo("verify")
  BY <1>2, TaskFacts DEF UsersInv, PlanFacts, ToDo, Forwards
<1>4. task.before.internal \in Keys /\ internal' \in [Person -> Keys]
  BY <1>1 DEF UsersInv, UserTypes, TaskKnown, Tasks, Memories
<1>5. UserTypes' /\ KeysIssued'
  BY <1>1, <1>4 DEF UsersInv, UserTypes, KeysIssued
<1>6. internal'[task.user] = task.before.internal
      /\ \A u \in Person : u # task.user => internal'[u] = internal[u]
  BY <1>1, <1>2 DEF UsersInv, UserTypes
<1>7. KeyKnown'
  BY <1>1, <1>2, <1>6 DEF UsersInv, KeyKnown, SameTask, Forwards
<1>8. AcceptedKnown' /\ ServedKnown'
  BY <1>2, <1>3 DEF AcceptedKnown, ServedKnown, SameTask, NotBegun, Forwards
<1>9. CredentialKnown'
  BY <1>1, <1>2, <1>3 DEF UsersInv, CredentialKnown, SameTask, Forwards
<1>10. OthersClean'
  BY <1>1, <1>2, <1>6 DEF UsersInv, OthersClean, Clean, AcceptedAs, ServedAs, AcceptsOwn,
     AcceptsNone, SameTask
<1> QED BY <1>2, <1>5, <1>7, <1>8, <1>9, <1>10 DEF UsersInv

LEMMA RestoreRowsKeeps ==
  ASSUME UsersInv, RestoreRows PROVE UsersInv'
<1> DEFINE u == task.user  before == task.before
<1>1. /\ At("rows") /\ task.mode = "rollback" /\ task' = Advance
      /\ rows' = [rows EXCEPT ![u] = before.rows]
      /\ routed' = IF before.routed THEN routed \cup {u} ELSE routed \ {u}
      /\ internal' = IF task.kind = "delete" /\ before.internal.key # 0
                       THEN [internal EXCEPT ![u] = before.internal] ELSE internal
      /\ UNCHANGED <<credential, accepted, served, scan, login, issued, unresolved>>
  BY DEF RestoreRows
<1>2. /\ TaskKnown' /\ SameTask /\ ToDo("rows")
      /\ \A s : ToDo(s)' <=> ToDo(s) /\ s # "rows"
  BY <1>1, Advanced DEF UsersInv
<1>3. ~Idle /\ ~Idle' /\ u \in Person
  BY <1>2, TaskFacts DEF UsersInv, TaskKnown, PlanFacts, Idle, SameTask, ToDo
<1>4. /\ ~Forwards /\ ~ToDo("verify")
      /\ task.kind \in {"revoke", "delete"} => ToDo("render") /\ ToDo("publish")
      /\ task.kind = "create" => (ToDo("render") <=> ToDo("publish"))
      /\ task.kind \in {"rotate", "assign"} => ToDo("publish") /\ ~ToDo("render")
      /\ task.kind \in Kinds
  BY <1>1, <1>2, <1>3, TaskFacts DEF UsersInv, PlanFacts, ToDo, Forwards, Kinds, Idle
<1>5. before.rows \in Rows /\ before.internal \in Keys
  BY DEF UsersInv, TaskKnown, Tasks, Memories
<1>6. UserTypes'
  BY <1>1, <1>3, <1>5 DEF UsersInv, UserTypes
<1>7. /\ rows'[u] = before.rows /\ \A v \in Person : v # u => rows'[v] = rows[v]
      /\ u \in routed' <=> before.routed
      /\ \A v \in Person : v # u => (v \in routed' <=> v \in routed)
      /\ \A v \in Person : v # u => internal'[v] = internal[v]
      /\ task.kind # "delete" => internal' = internal
      /\ task.kind = "delete" /\ before.internal.key # 0 => internal'[u] = before.internal
  BY <1>1, <1>3 DEF UsersInv, UserTypes
<1>8. KeysIssued'
  BY <1>1, <1>3, <1>7 DEF UsersInv, KeysIssued, RowsKnown
<1>9. RowsKnown'
  BY <1>1, <1>2, <1>3, <1>4, <1>7 DEF UsersInv, RowsKnown, SameTask, Forwards
<1>10. KeyKnown'
  BY <1>1, <1>2, <1>3, <1>7 DEF UsersInv, KeyKnown, SameTask, Forwards
<1>11. GoalStatus' = GoalStatus /\ GoalStatus = before.rows.status
  BY <1>2, <1>7 DEF GoalStatus, SameTask
<1>12. Certain => u \notin unresolved
  BY <1>4 DEF Certain
<1>13. (Certain' <=> Certain) /\ ~NotBegun'
  BY <1>1, <1>2, <1>4 DEF Certain, NotBegun, SameTask, Forwards
<1>14. AcceptedKnown'
  <2> SUFFICES ASSUME Certain, ~ToDo("render"), ~task.failed
               PROVE  AcceptedAs(u, GoalStatus)'
    BY <1>2, <1>3, <1>13 DEF AcceptedKnown, SameTask
  <2>1. AcceptedAs(u, GoalStatus) /\ internal' = internal
    BY <1>3, <1>4, <1>7 DEF UsersInv, AcceptedKnown
  <2> QED BY <1>1, <1>2, <1>11, <2>1 DEF AcceptedAs, AcceptsOwn, AcceptsNone, SameTask
<1>15. ServedKnown'
  <2> SUFFICES ASSUME Certain, ~ToDo("publish"), ~task.failed
               PROVE  ServedAs(u, GoalStatus)'
    BY <1>2, <1>3, <1>4, <1>13 DEF ServedKnown, SameTask
  <2>1. ServedAs(u, GoalStatus) /\ task.kind = "create"
    BY <1>3, <1>4 DEF UsersInv, ServedKnown, Kinds
  <2>2. GoalStatus # "active"
    BY <1>3, <1>11, <2>1 DEF UsersInv, RowsKnown
  <2> QED BY <1>1, <1>2, <1>11, <2>1, <2>2 DEF ServedAs, SameTask
<1>16. CredentialKnown'
  BY <1>1, <1>2, <1>3, <1>4 DEF UsersInv, CredentialKnown, SameTask, Forwards
<1>17. OthersClean'
  BY <1>1, <1>2, <1>3, <1>7 DEF UsersInv, OthersClean, Clean, AcceptedAs, ServedAs, AcceptsOwn,
     AcceptsNone, SameTask
<1> QED BY <1>2, <1>6, <1>8, <1>9, <1>10, <1>14, <1>15, <1>16, <1>17 DEF UsersInv

-----------------------------------------------------------------------------
(***************************************************************************)
(* An operation begins, returns, or dies with Admin.                       *)
(***************************************************************************)

LEMMA IdleClean ==
  ASSUME UsersInv, Idle, NEW u \in Person, u \notin unresolved PROVE Clean(u)
BY DEF UsersInv, OthersClean

(* An active user of whom all is known has an internal key.                *)
LEMMA CleanKey ==
  ASSUME UserTypes, NEW u \in Person, Clean(u), rows[u].status = "active"
  PROVE  internal[u].key # 0
BY UserLifecycleAssumption DEF UserTypes, Clean, AcceptedAs, AcceptsOwn

(* The users an operation does not begin with stay as they are.            *)
LEMMA OthersUntouched ==
  ASSUME UsersInv, Idle, NEW u \in Person, ~Idle', task'.user = u,
         UNCHANGED <<credential, accepted, served, unresolved>>,
         \A v \in Person : v # u => /\ rows'[v] = rows[v] /\ internal'[v] = internal[v]
                                    /\ (v \in routed' <=> v \in routed)
  PROVE  OthersClean'
BY IdleClean DEF OthersClean, Clean, AcceptedAs, ServedAs, AcceptsOwn, AcceptsNone

LEMMA CreationKeeps ==
  ASSUME UsersInv, NEW u \in Person, ApplyUserCreation(u) PROVE UsersInv'
<1> USE DEF Kinds
<1>1. /\ Idle /\ rows[u].status # "active" /\ Start("create", u)
      /\ issued' = [issued EXCEPT ![u].external = @ + 1]
      /\ rows' = [rows EXCEPT ![u] = [status |-> "active", key |-> issued[u].external + 1]]
      /\ routed' = routed \ {u}
      /\ UNCHANGED <<internal, credential, accepted, served, scan, login, unresolved>>
  BY DEF ApplyUserCreation, NewExternalKey
<1>2. /\ TaskKnown' /\ ~Idle' /\ task'.kind = "create" /\ task'.user = u
      /\ Forwards' /\ ~task'.failed /\ task'.before.rows = rows[u]
      /\ ~ToDo("rows")' /\ ToDo("publish")' /\ ToDo("render")' /\ ToDo("verify")'
      /\ ToDo("credential")'
  BY <1>1, Begun DEF UsersInv, Forwards
<1>3. /\ \A v \in Person : issued[v] \in Issues /\ rows[v] \in Rows /\ served[v] \in Records
      /\ \A v \in Person : v # u => rows'[v] = rows[v] /\ issued'[v] = issued[v]
      /\ rows'[u] = [status |-> "active", key |-> issued[u].external + 1]
      /\ issued'[u] \in Issues /\ issued'[u].external = issued[u].external + 1
  BY <1>1 DEF UsersInv, UserTypes, Issues
<1>4. UserTypes'
  <2>1. issued' \in [Person -> Issues]
    BY <1>1, <1>3 DEF UsersInv, UserTypes
  <2>2. rows' \in [Person -> Rows]
    BY <1>1, <1>3 DEF UsersInv, UserTypes, Rows, Issues
  <2> QED BY <1>1, <2>1, <2>2 DEF UsersInv, UserTypes
<1>5. KeysIssued'
  BY <1>1, <1>3 DEF UsersInv, KeysIssued, Issues, Rows, Records
<1>6. RowsKnown'
  BY <1>1, <1>2, <1>3 DEF UsersInv, KeysIssued, RowsKnown, Issues, Rows
<1>7. KeyKnown'
  BY <1>1, <1>2 DEF KeyKnown
<1>8. u \notin unresolved => AcceptsNone(u) /\ served[u] = NotServed
  BY <1>1, IdleClean DEF Clean, AcceptedAs, ServedAs
<1>9. AcceptedKnown'
  BY <1>1, <1>2, <1>8 DEF AcceptedKnown, NotBegun, AcceptsNone
<1>10. ServedKnown'
  <2>1. served'[u].key # rows'[u].key
    BY <1>1, <1>3 DEF UsersInv, KeysIssued, Issues, Records
  <2> QED BY <1>1, <1>2, <1>8, <2>1 DEF ServedKnown, NotBegun
<1>11. CredentialKnown'
  BY <1>1, <1>2 DEF CredentialKnown
<1>12. OthersClean'
  BY <1>1, <1>2, <1>3, OthersUntouched
<1> QED BY <1>2, <1>4, <1>5, <1>6, <1>7, <1>9, <1>10, <1>11, <1>12 DEF UsersInv

LEMMA RevocationKeeps ==
  ASSUME UsersInv, NEW u \in Person, ApplyUserRevocation(u) PROVE UsersInv'
<1> USE DEF Kinds
<1>1. /\ Idle /\ rows[u].status = "active" /\ Start("revoke", u)
      /\ rows' = [rows EXCEPT ![u].status = "revoked"]
      /\ UNCHANGED <<routed, internal, credential, accepted, served, scan, login, issued,
                     unresolved>>
  BY DEF ApplyUserRevocation
<1>2. /\ TaskKnown' /\ ~Idle' /\ task'.kind = "revoke" /\ task'.user = u
      /\ Forwards' /\ ~task'.failed /\ task'.before.rows = rows[u]
      /\ task'.before.internal = internal[u]
      /\ ~ToDo("rows")' /\ ToDo("publish")' /\ ToDo("render")' /\ ~ToDo("verify")'
  BY <1>1, Begun DEF UsersInv, Forwards
<1>3. /\ \A v \in Person : v # u => rows'[v] = rows[v]
      /\ rows'[u].status = "revoked" /\ rows'[u].key = rows[u].key
      /\ rows' \in [Person -> Rows]
  BY <1>1 DEF UsersInv, UserTypes, Rows
<1>4. UserTypes' /\ KeysIssued'
  BY <1>1, <1>3 DEF UsersInv, UserTypes, KeysIssued
<1>5. RowsKnown'
  BY <1>1, <1>2, <1>3 DEF UsersInv, KeysIssued, RowsKnown
<1>6. u \notin unresolved => internal[u].key # 0 /\ credential[u] # "none"
  BY <1>1, IdleClean, CleanKey DEF UsersInv, Clean
<1>7. KeyKnown' /\ CredentialKnown'
  BY <1>1, <1>2, <1>6 DEF KeyKnown, CredentialKnown
<1>8. AcceptedKnown' /\ ServedKnown'
  BY <1>2 DEF AcceptedKnown, ServedKnown, NotBegun
<1>9. OthersClean'
  BY <1>1, <1>2, <1>3, OthersUntouched
<1> QED BY <1>2, <1>4, <1>5, <1>7, <1>8, <1>9 DEF UsersInv

LEMMA DeletionKeeps ==
  ASSUME UsersInv, NEW u \in Person, ApplyUserDeletion(u) PROVE UsersInv'
<1> USE DEF Kinds
<1>1. /\ Idle /\ Start("delete", u)
      /\ rows' = [rows EXCEPT ![u] = NoRows] /\ routed' = routed \ {u}
      /\ internal' = [internal EXCEPT ![u] = NoSecret]
      /\ UNCHANGED <<credential, accepted, served, scan, login, issued, unresolved>>
  BY DEF ApplyUserDeletion
<1>2. /\ TaskKnown' /\ ~Idle' /\ task'.kind = "delete" /\ task'.user = u
      /\ Forwards' /\ ~task'.failed /\ task'.before.rows = rows[u]
      /\ task'.before.internal = internal[u]
      /\ ~ToDo("rows")' /\ ToDo("publish")' /\ ToDo("render")' /\ ~ToDo("verify")'
      /\ ToDo("portal")'
  BY <1>1, Begun DEF UsersInv, Forwards
<1>3. NoRows \in Rows /\ NoSecret \in Keys
  BY DEF NoRows, NoSecret, Rows, Keys
<1>4. /\ \A v \in Person : v # u => rows'[v] = rows[v] /\ internal'[v] = internal[v]
      /\ rows'[u] = NoRows
      /\ rows' \in [Person -> Rows] /\ internal' \in [Person -> Keys]
  BY <1>1, <1>3 DEF UsersInv, UserTypes
<1>5. UserTypes'
  BY <1>1, <1>4 DEF UsersInv, UserTypes
<1>6. KeysIssued'
  BY <1>1, <1>4 DEF UsersInv, UserTypes, KeysIssued, NoRows, Issues
<1>7. RowsKnown'
  BY <1>1, <1>2, <1>4 DEF UsersInv, KeysIssued, RowsKnown, NoRows
<1>8. u \notin unresolved /\ rows[u].status = "active" =>
          internal[u].key # 0 /\ credential[u] # "none"
  BY <1>1, IdleClean, CleanKey DEF UsersInv, Clean
<1>9. KeyKnown' /\ CredentialKnown'
  BY <1>1, <1>2, <1>8 DEF KeyKnown, CredentialKnown
<1>10. AcceptedKnown' /\ ServedKnown'
  BY <1>2 DEF AcceptedKnown, ServedKnown, NotBegun
<1>11. OthersClean'
  BY <1>1, <1>2, <1>4, OthersUntouched
<1> QED BY <1>2, <1>5, <1>6, <1>7, <1>9, <1>10, <1>11 DEF UsersInv

LEMMA RotationKeeps ==
  ASSUME UsersInv, NEW u \in Person, ApplyUserKeyRotationExpected(u) PROVE UsersInv'
<1> USE DEF Kinds
<1>1. /\ Idle /\ rows[u].status = "active" /\ Start("rotate", u)
      /\ issued' = [issued EXCEPT ![u].external = @ + 1]
      /\ rows' = [rows EXCEPT ![u].key = issued[u].external + 1]
      /\ UNCHANGED <<routed, internal, credential, accepted, served, scan, login, unresolved>>
  BY DEF ApplyUserKeyRotationExpected, NewExternalKey
<1>2. /\ TaskKnown' /\ ~Idle' /\ task'.kind = "rotate" /\ task'.user = u
      /\ Forwards' /\ ~task'.failed /\ task'.before.rows = rows[u]
      /\ task'.before.internal = internal[u]
      /\ ~ToDo("rows")' /\ ToDo("publish")' /\ ~ToDo("render")' /\ ~ToDo("verify")'
  BY <1>1, Begun DEF UsersInv, Forwards
<1>3. /\ \A v \in Person : issued[v] \in Issues /\ rows[v] \in Rows /\ served[v] \in Records
      /\ \A v \in Person : v # u => rows'[v] = rows[v] /\ issued'[v] = issued[v]
      /\ rows'[u] \in Rows /\ rows'[u].status = "active"
      /\ rows'[u].key = issued[u].external + 1
      /\ issued'[u] \in Issues /\ issued'[u].external = issued[u].external + 1
  BY <1>1 DEF UsersInv, UserTypes, Issues, Rows
<1>4. UserTypes'
  <2>1. issued' \in [Person -> Issues] /\ rows' \in [Person -> Rows]
    BY <1>1, <1>3 DEF UsersInv, UserTypes
  <2> QED BY <1>1, <2>1 DEF UsersInv, UserTypes
<1>5. KeysIssued'
  BY <1>1, <1>3 DEF UsersInv, KeysIssued, Issues, Rows, Records
<1>6. RowsKnown'
  BY <1>1, <1>2, <1>3 DEF UsersInv, KeysIssued, RowsKnown, Issues, Rows
<1>7. u \notin unresolved => internal[u].key # 0 /\ credential[u] # "none" /\ AcceptsOwn(u)
  BY <1>1, IdleClean, CleanKey DEF UsersInv, Clean, AcceptedAs
<1>8. KeyKnown' /\ CredentialKnown'
  BY <1>1, <1>2, <1>7 DEF KeyKnown, CredentialKnown
<1>9. AcceptedKnown'
  BY <1>1, <1>2, <1>3, <1>7 DEF AcceptedKnown, NotBegun, Certain, AcceptedAs, AcceptsOwn,
     GoalStatus
<1>10. ServedKnown'
  BY <1>2 DEF ServedKnown, NotBegun
<1>11. OthersClean'
  BY <1>1, <1>2, <1>3, OthersUntouched
<1> QED BY <1>2, <1>4, <1>5, <1>6, <1>8, <1>9, <1>10, <1>11 DEF UsersInv

LEMMA AssignRouteKeeps ==
  ASSUME UsersInv, NEW u \in Person, AssignRoute(u) PROVE UsersInv'
<1> USE DEF Kinds
<1>1. /\ Idle /\ rows[u].status = "active" /\ Start("assign", u)
      /\ routed' = routed \cup {u}
      /\ UNCHANGED <<rows, internal, credential, accepted, served, scan, login, issued,
                     unresolved>>
  BY DEF AssignRoute
<1>2. /\ TaskKnown' /\ ~Idle' /\ task'.kind = "assign" /\ task'.user = u
      /\ Forwards' /\ ~task'.failed /\ task'.before.rows = rows[u]
      /\ task'.before.internal = internal[u]
      /\ ~ToDo("rows")' /\ ToDo("publish")' /\ ~ToDo("render")' /\ ~ToDo("verify")'
  BY <1>1, Begun DEF UsersInv, Forwards
<1>3. UserTypes' /\ KeysIssued'
  BY <1>1 DEF UsersInv, UserTypes, KeysIssued
<1>4. RowsKnown'
  BY <1>1, <1>2 DEF UsersInv, KeysIssued, RowsKnown
<1>5. u \notin unresolved => internal[u].key # 0 /\ credential[u] # "none" /\ AcceptsOwn(u)
  BY <1>1, IdleClean, CleanKey DEF UsersInv, Clean, AcceptedAs
<1>6. KeyKnown' /\ CredentialKnown'
  BY <1>1, <1>2, <1>5 DEF KeyKnown, CredentialKnown
<1>7. AcceptedKnown'
  BY <1>1, <1>2, <1>5 DEF AcceptedKnown, NotBegun, Certain, AcceptedAs, AcceptsOwn, GoalStatus
<1>8. ServedKnown'
  BY <1>2 DEF ServedKnown, NotBegun
<1>9. OthersClean'
  BY <1>1, <1>2, OthersUntouched
<1> QED BY <1>2, <1>3, <1>4, <1>6, <1>7, <1>8, <1>9 DEF UsersInv

LEMMA IdleKnown ==
  ASSUME UserTypes', KeysIssued', OthersClean', task' = NoTask PROVE UsersInv'
<1>1. NoTask \in Tasks
  BY DEF NoTask, Tasks, NoRows, NoSecret, Memories, Rows, Keys, Credentials, Plans
<1>2. Idle'
  BY DEF Idle, NoTask
<1>3. TaskKnown'
  BY <1>1, <1>2 DEF TaskKnown, NoTask, Met
<1> QED BY <1>2, <1>3 DEF UsersInv, RowsKnown, KeyKnown, AcceptedKnown, ServedKnown,
        CredentialKnown

(* What is done, and was not reported as failed, is as the rows demand.    *)
LEMMA DoneClean ==
  ASSUME UsersInv, ~Idle, task.plan = <<>>, ~task.failed, Certain
  PROVE  Clean(task.user)
<1> DEFINE u == task.user
<1>1. \A s : ~ToDo(s)
  BY TaskFacts DEF UsersInv, PlanFacts, ToDo
<1>2. u \in Person /\ task.kind \in Kinds
  BY TaskFacts DEF UsersInv, TaskKnown, PlanFacts, Idle, Kinds
<1>3. GoalStatus = rows[u].status
  BY <1>1 DEF GoalStatus
<1>4. AcceptedAs(u, rows[u].status) /\ ServedAs(u, rows[u].status)
  BY <1>1, <1>3 DEF UsersInv, AcceptedKnown, ServedKnown
<1>5. ASSUME rows[u].status = "active" PROVE credential[u] # "none"
  <2>1. CASE Forwards /\ task.kind = "create"
    BY <1>1, <2>1 DEF UsersInv, CredentialKnown
  <2>2. CASE Forwards /\ task.kind # "create"
    <3>1. task.kind \in {"rotate", "assign"}
      BY <1>2, <1>5, <2>2 DEF UsersInv, RowsKnown, Kinds
    <3> QED BY <2>2, <3>1 DEF UsersInv, RowsKnown, CredentialKnown, Certain
  <2>3. CASE ~Forwards
    <3>1. task.before.rows.status = "active" /\ u \notin unresolved
      BY <1>1, <1>5, <2>3 DEF UsersInv, RowsKnown, Certain
    <3> QED BY <2>3, <3>1 DEF UsersInv, CredentialKnown
  <2> QED BY <2>1, <2>2, <2>3
<1> QED BY <1>4, <1>5 DEF Clean

LEMMA ReturnKeeps ==
  ASSUME UsersInv, Return PROVE UsersInv'
<1> DEFINE u == task.user
           over == task.mode = "forward" /\ task.kind \in {"create", "revoke", "delete"}
<1>1. /\ ~Idle /\ task.plan = <<>> /\ task' = NoTask
      /\ UNCHANGED <<rows, routed, internal, credential, accepted, served, scan, login, issued>>
  BY DEF Return, tables
<1>2. /\ task.failed => unresolved' = unresolved \cup {u}
      /\ ~task.failed /\ over => unresolved' = unresolved \ {u}
      /\ ~task.failed /\ ~over => unresolved' = unresolved
  BY DEF Return
<1>3. u \in Person
  BY <1>1 DEF UsersInv, TaskKnown
<1>4. UserTypes' /\ KeysIssued'
  BY <1>1, <1>2, <1>3 DEF UsersInv, UserTypes, KeysIssued
<1>5. \A v \in Person \ unresolved' : Clean(v)
  <2> SUFFICES ASSUME NEW v \in Person, v \notin unresolved' PROVE Clean(v)
    OBVIOUS
  <2>1. CASE v # u
    BY <1>2, <2>1 DEF UsersInv, OthersClean
  <2>2. CASE v = u
    <3>1. ~task.failed /\ (u \notin unresolved \/ over)
      BY <1>2, <2>2
    <3>2. Certain
      BY <3>1 DEF Certain, Forwards
    <3> QED BY <1>1, <2>2, <3>1, <3>2, DoneClean
  <2> QED BY <2>1, <2>2
<1>6. OthersClean'
  BY <1>1, <1>5 DEF OthersClean, Clean, AcceptedAs, ServedAs, AcceptsOwn, AcceptsNone
<1> QED BY <1>1, <1>4, <1>6, IdleKnown

LEMMA AdminCrashKeeps ==
  ASSUME UsersInv, AdminCrash PROVE UsersInv'
<1>1. /\ task' = NoTask /\ login' = {}
      /\ unresolved' = IF Idle THEN unresolved ELSE unresolved \cup {task.user}
      /\ UNCHANGED <<rows, routed, internal, credential, accepted, served, scan, issued>>
  BY DEF AdminCrash, tables
<1>2. UserTypes' /\ KeysIssued'
  BY <1>1 DEF UsersInv, UserTypes, KeysIssued, TaskKnown
<1>3. \A v \in Person \ unresolved' : Clean(v)
  BY <1>1 DEF UsersInv, OthersClean
<1>4. OthersClean'
  BY <1>1, <1>3 DEF OthersClean, Clean, AcceptedAs, ServedAs, AcceptsOwn, AcceptsNone
<1> QED BY <1>1, <1>2, <1>4, IdleKnown

-----------------------------------------------------------------------------
LEMMA UsersInitially == UserInit => UsersInv
<1> SUFFICES ASSUME UserInit PROVE UsersInv
  OBVIOUS
<1>1. /\ rows = [u \in Person |-> NoRows] /\ internal = [u \in Person |-> NoSecret]
      /\ served = [u \in Person |-> NotServed] /\ accepted = [a \in CPA |-> {}]
      /\ credential = [u \in Person |-> "none"] /\ task = NoTask /\ unresolved = {}
      /\ issued = [u \in Person |-> [external |-> 0, internal |-> 0]]
      /\ scan = [p \in Peer |-> [at |-> "idle", users |-> {}]] /\ routed = {} /\ login = {}
  BY DEF UserInit
<1>2. /\ NoRows \in Rows /\ NoSecret \in Keys /\ NotServed \in Records
      /\ [external |-> 0, internal |-> 0] \in Issues
      /\ [at |-> "idle", users |-> {}] \in Scans
  BY DEF NoRows, NoSecret, NotServed, Rows, Keys, Records, Issues, Scans
<1>3. UserTypes
  BY <1>1, <1>2 DEF UserTypes, Credentials
<1>4. KeysIssued
  <2> SUFFICES ASSUME NEW u \in Person
               PROVE  /\ rows[u].key <= issued[u].external
                      /\ rows[u].status = "active" => rows[u].key # 0
                      /\ served[u].key <= issued[u].external
                      /\ served[u].key # 0 => served[u].internal # 0
    BY DEF KeysIssued
  <2>1. /\ rows[u].key = 0 /\ rows[u].status = "none"
        /\ served[u].key = 0 /\ issued[u].external = 0
    BY <1>1 DEF NoRows, NotServed
  <2> QED BY <2>1
<1>5. NoTask \in Tasks /\ Idle
  BY <1>1 DEF NoTask, Tasks, NoRows, NoSecret, Memories, Rows, Keys, Credentials, Plans, Idle
<1>6. TaskKnown
  BY <1>1, <1>5 DEF TaskKnown, NoTask, Met
<1>7. OthersClean
  BY <1>1 DEF OthersClean, Clean, AcceptedAs, ServedAs, AcceptsNone, NoRows
<1> QED BY <1>3, <1>4, <1>5, <1>6, <1>7 DEF UsersInv, RowsKnown, KeyKnown, AcceptedKnown,
        ServedKnown, CredentialKnown

LEMMA UsersStep == UsersInv /\ [UserNext]_userVars => UsersInv'
<1> SUFFICES ASSUME UsersInv, [UserNext]_userVars PROVE UsersInv'
  OBVIOUS
<1>1. CASE UNCHANGED userVars
  BY <1>1, Quiet DEF userVars, UsersInv, UserTypes
<1>2. ASSUME NEW u \in Person, UserRequest(u) PROVE UsersInv'
  BY <1>2, CreationKeeps, RevocationKeeps, DeletionKeeps, RotationKeeps, AssignRouteKeeps,
     PasswordsKeep DEF UserRequest
<1>3. CASE UserStep
  BY <1>3, RestoreRowsKeeps, RestoreInternalKeyKeeps, SetCredentialKeeps, DeleteUserStateKeeps,
     SyncInternalKeysKeeps, RenderKeeps, VerifyUserKeyKeeps, PublishKeeps, StepFailsKeeps,
     ReturnKeeps DEF UserStep
<1>4. ASSUME NEW p \in Peer, ReadUsers(p) \/ Reconcile(p) \/ PeerFails(p) \/ PeerPublish(p)
      PROVE  UsersInv'
  BY <1>4, ReadUsersKeeps, ReconcileKeeps, PeerFailsKeeps, PeerPublishKeeps
<1> QED BY <1>1, <1>2, <1>3, <1>4, AdminCrashKeeps DEF UserNext

(* The operations, their steps and compensations, the crash of Admin and   *)
(* the other processes keep the invariant.                                 *)
THEOREM UsersInductive == UserSpec => []UsersInv
BY UsersInitially, UsersStep, PTL DEF UserSpec

(* UsersConsistent follows: lists and snapshot serve exactly the active    *)
(* users, and a compensation that reports success has undone its operation.*)
LEMMA UsersImplied == UsersInv => UsersConsistent
<1> SUFFICES ASSUME UsersInv PROVE UsersConsistent
  OBVIOUS
<1>1. RemovedNotServed
  <2> SUFFICES ASSUME NEW u \in Person \ unresolved, Idle, rows[u].status # "active"
               PROVE  /\ served[u] = NotServed
                      /\ \A a \in CPA : accepted[a] \cap InternalKeysOf(u) = {}
    BY DEF RemovedNotServed
  <2>1. AcceptsNone(u) /\ served[u] = NotServed
    BY IdleClean DEF Clean, AcceptedAs, ServedAs
  <2>2. 1..MaxSecret \subseteq Nat
    BY UserLifecycleAssumption
  <2> QED BY <2>1, <2>2 DEF AcceptsNone, InternalKeysOf
<1>2. ActiveServed
  <2> SUFFICES ASSUME NEW u \in ActiveUsers \ unresolved, Idle
               PROVE  /\ credential[u] # "none" /\ AcceptsOwn(u)
                      /\ served[u] = SnapshotImage[u]
    BY DEF ActiveServed, AcceptsOwn
  <2>1. u \in Person /\ rows[u].status = "active"
    BY DEF ActiveUsers
  <2> QED BY <2>1, IdleClean DEF Clean, AcceptedAs, ServedAs, SnapshotImage
<1>3. NotServedBeforeVerified
  <2> SUFFICES ASSUME task.kind = "create", task.mode = "forward", Len(task.plan) > 1
               PROVE  served[task.user].key # rows[task.user].key
    BY DEF NotServedBeforeVerified
  <2>1. task.plan # <<>>
    OBVIOUS
  <2>2. ToDo("verify") /\ ~task.failed /\ ~Idle
    BY <2>1, TaskFacts DEF UsersInv, PlanFacts, ToDo, Idle
  <2> QED BY <2>2 DEF UsersInv, ServedKnown
<1>4. CompensationExact
  <2> SUFFICES ASSUME ~Idle, task.plan = <<>>, task.mode = "rollback", ~task.failed
               PROVE  CompensationExact
    BY DEF CompensationExact
  <2>1. \A s : ~ToDo(s)
    BY TaskFacts DEF UsersInv, PlanFacts, ToDo
  <2>2. /\ rows[task.user] = task.before.rows
        /\ task.user \in routed <=> task.before.routed
    BY <2>1 DEF UsersInv, RowsKnown, Forwards
  <2>3. (task.user \in routed) = task.before.routed
    BY <2>2 DEF UsersInv, TaskKnown, Tasks, Memories
  <2>4. task.before.rows.status = "active" /\ task.before.internal.key # 0 =>
            internal[task.user].key = task.before.internal.key
    BY <2>1 DEF UsersInv, KeyKnown, Forwards
  <2> QED BY <2>2, <2>3, <2>4 DEF CompensationExact
<1> QED BY <1>1, <1>2, <1>3, <1>4 DEF UsersConsistent, ServedExactly

(* CreateUser, RevokeUser, DeleteUser, RotateUserKey, their rollbacks and  *)
(* the peers: UsersConsistent for all users, accounts and secrets.         *)
THEOREM UsersAlwaysConsistent == UserSpec => []UsersConsistent
BY UsersInductive, UsersImplied, PTL

(* EnsureInternalKeys, RestoreInternalKey: a step changes the internal key *)
(* of an active user, known to be well, only by making it inactive.        *)
LEMMA KeyStep ==
  ASSUME UsersInv, [UserNext]_userVars, NEW v \in Person,
         v \in ActiveUsers \ unresolved, v \in ActiveUsers', internal[v].key # 0
  PROVE  internal'[v].key = internal[v].key
<1>1. rows[v].status = "active" /\ rows'[v].status = "active" /\ v \notin unresolved
  BY DEF ActiveUsers
<1>2. ASSUME NEW users \in SUBSET Person, EnsureInternalKeys(users)
      PROVE  internal'[v].key = internal[v].key
  BY <1>2, Reconciled DEF UsersInv
<1>3. CASE SyncInternalKeys
  <2>1. ActiveUsers \in SUBSET Person
    BY ActiveUsersKnown DEF UsersInv
  <2> QED BY <1>2, <1>3, <2>1 DEF SyncInternalKeys
<1>4. ASSUME NEW p \in Peer, Reconcile(p) PROVE internal'[v].key = internal[v].key
  <2>1. scan[p].users \in SUBSET Person
    BY DEF UsersInv, UserTypes, Scans
  <2> QED BY <1>2, <1>4, <2>1 DEF Reconcile
<1>5. ASSUME NEW u \in Person, ApplyUserDeletion(u) PROVE internal'[v].key = internal[v].key
  BY <1>1, <1>5 DEF ApplyUserDeletion, NoRows, UsersInv, UserTypes
<1>6. CASE RestoreRows
  <2>1. CASE v = task.user /\ task.kind = "delete"
    BY <1>1, <1>6, <2>1 DEF RestoreRows, DeletionIntact, NoRows
  <2>2. CASE ~(v = task.user /\ task.kind = "delete")
    BY <1>6, <2>2 DEF RestoreRows, UsersInv, UserTypes
  <2> QED BY <2>1, <2>2
<1>7. CASE RestoreInternalKey
  <2>1. CASE v = task.user
    <3>1. At("internal") /\ internal' = [internal EXCEPT ![v] = task.before.internal]
      BY <1>7, <2>1 DEF RestoreInternalKey
    <3>2. /\ ~Forwards /\ ~ToDo("rows") /\ ToDo("internal") /\ ~Idle
          /\ task.kind \in {"create", "revoke"}
      BY <3>1, TaskFacts DEF UsersInv, PlanFacts, First, At, ToDo, Forwards, Idle
    <3>3. task.before.rows = rows[v]
      BY <2>1, <3>2 DEF UsersInv, RowsKnown
    <3>4. internal[v].key = task.before.internal.key
      BY <1>1, <2>1, <3>2, <3>3 DEF UsersInv, KeyKnown
    <3> QED BY <3>1, <3>4 DEF UsersInv, UserTypes
  <2>2. CASE v # task.user
    BY <1>7, <2>2 DEF RestoreInternalKey, UsersInv, UserTypes
  <2> QED BY <2>1, <2>2
<1>8. ASSUME UNCHANGED internal PROVE internal'[v].key = internal[v].key
  BY <1>8
<1>9. ASSUME NEW u \in Person, UserRequest(u) PROVE internal'[v].key = internal[v].key
  BY <1>5, <1>8, <1>9 DEF UserRequest, ApplyUserCreation, ApplyUserRevocation,
     ApplyUserKeyRotationExpected, AssignRoute, ResetUserPassword, AuthenticatePasswordChange,
     ChangePassword, tables
<1>10. CASE UserStep
  BY <1>3, <1>6, <1>7, <1>8, <1>10 DEF UserStep, SetCredential, DeleteUserState, Render,
     VerifyUserKey, Publish, StepFails, Return, tables
<1>11. CASE AdminCrash \/ \E p \in Peer : ReadUsers(p) \/ PeerFails(p) \/ PeerPublish(p)
  BY <1>8, <1>11 DEF AdminCrash, PeerPublish, ReadUsers, PeerFails, tables
<1>12. CASE UNCHANGED userVars
  BY <1>8, <1>12 DEF userVars
<1> QED BY <1>4, <1>9, <1>10, <1>11, <1>12 DEF UserNext

(* No operation, compensation or reconciliation, also with an outdated set *)
(* of users, replaces the internal key of a user who stays active.         *)
THEOREM InternalKeysStable == UserSpec => InternalKeyStable
<1>1. UsersInv /\ [UserNext]_userVars =>
        [\A u \in Person :
            u \in ActiveUsers \ unresolved /\ u \in ActiveUsers' /\ internal[u].key # 0 =>
                internal'[u].key = internal[u].key]_userVars
  BY KeyStep
<1> QED BY <1>1, UsersInductive, PTL DEF UserSpec, InternalKeyStable

=============================================================================
