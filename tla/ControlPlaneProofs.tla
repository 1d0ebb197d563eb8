-------------------------- MODULE ControlPlaneProofs --------------------------
(* Proofs about the parts of the control plane whose clients are processes   *)
(* that start, die and act on what they read before: the keys and secrets of *)
(* the store (StoreBootstrap), the memberships of the teams (Teams), the     *)
(* observation of accounts (AccountStatus) and what Admin writes for the     *)
(* CPAs (Projection).  Every invariant is inductive as it stands here and    *)
(* implies the property its runs check.                                      *)
EXTENDS StoreBootstrap, Teams, AccountStatus, Projection, FiniteSetTheorems, TLAPS

-----------------------------------------------------------------------------
(* The store: keys and secrets.  A secret is lost when it is sealed with one  *)
(* key and read with another, so the invariant follows who holds which key.  *)

Holding == {"keyed", "importing", "credential", "stored", "publishing", "running"}
Signing == "cpa_management_key"

Step == {"gone", "opened", "initialized", "creating", "writing"} \cup Holding
StarterState ==
    [step : Step,
     boot : BOOLEAN, key : 0..MaxKeys, fresh : 0..MaxKeys, secret : Imported \cup {""},
     alone : BOOLEAN, credential : Nat]

KeepTypes ==
    /\ schema \in {0, Old, Current, Newer}
    /\ sealed \in [Secret -> [key : 0..MaxKeys, value : Nat]]
    /\ keyFile \in 0..Torn
    /\ legacy \in [Imported -> Nat]
    /\ starter \in [Starter -> StarterState]
    /\ decided \in [Secret -> Nat]
    /\ overtaken \subseteq Imported
    /\ handed \in Nat /\ keysMade \in 0..MaxKeys /\ values \in Nat

(* Whoever has a key has the one in the file, or the one that was lost and *)
(* that something is sealed with; a key is created only while nothing is   *)
(* sealed, by one process.                                                 *)
KeysKnown ==
    /\ \A n \in Secret : sealed[n] # Absent => sealed[n].key # 0 /\ sealed[Signing] # Absent
    /\ \A p \in Starter : starter[p].step \in Holding =>
           /\ starter[p].key # 0 /\ keyFile \in {0, starter[p].key}
           /\ keyFile = 0 => ~NothingSealed
           /\ \A n \in Secret : sealed[n] # Absent => sealed[n].key = starter[p].key
    /\ \A p \in Starter :
           /\ starter[p].step \in {"creating", "writing"} => starter[p].fresh # 0
           /\ starter[p].step = "creating" => keyFile # 0 \/ NothingSealed
           /\ starter[p].step = "writing" => keyFile = Torn
    /\ \A p, q \in Starter :
           starter[p].step = "writing" /\ starter[q].step = "writing" => p = q

(* Files of older releases are found only beside a sealed credential; what *)
(* is being imported was missing when it was looked up.                    *)
ImportsKnown ==
    /\ sealed[Signing] # Absent \/ \A n \in Imported : legacy[n] = 0
    /\ schema = 0 => \A n \in Imported : legacy[n] = 0
    /\ \A p \in Starter :
           /\ starter[p].boot => \A n \in Imported : legacy[n] = 0
           /\ starter[p].step = "importing" =>
                  /\ starter[p].secret \in Imported /\ legacy[starter[p].secret] # 0
                  /\ decided[starter[p].secret] = 0 \/ starter[p].secret \in overtaken

(* A bootstrap that is alone sees nobody else act until it has ended, and  *)
(* none begins afterwards.                                                 *)
AloneKnown ==
    /\ \A p \in Starter :
           /\ starter[p].step = "gone" => ~starter[p].boot
           /\ starter[p].step \in {"credential", "stored", "publishing"} => starter[p].boot
           /\ starter[p].step \notin {"gone", "opened"} => schema = Current
           /\ starter[p].step = "publishing" => usageMade
           /\ starter[p].alone /\ starter[p].step # "gone" =>
                  \A q \in Starter \ {p} : starter[q].step = "gone"
           /\ starter[p].alone /\ starter[p].step \in {"stored", "publishing"} =>
                  sealed[Signing].value = starter[p].credential
    /\ handed # 0 =>
           /\ \A n \in Imported : legacy[n] = 0
           /\ \A p \in Starter : ~starter[p].boot

KeepInv == /\ KeepTypes /\ KeysKnown /\ ImportsKnown /\ AloneKnown
           /\ OneKey /\ SecretsAsDecided /\ CredentialWorks

-----------------------------------------------------------------------------
LEMMA KeysAre == MaxKeys \in Nat /\ MaxKeys > 0 /\ Torn = MaxKeys + 1 /\ Torn \in Nat
BY StoreBootstrapAssumption DEF Torn

(* What a process becomes with a step. *)
LEMMA GoneState ==
    Gone \in StarterState /\ Gone.step = "gone" /\ ~Gone.boot
BY KeysAre DEF StarterState, Gone, Step

LEMMA Stepped ==
    ASSUME NEW s \in StarterState, NEW t \in Step
    PROVE  LET r == [s EXCEPT !.step = t]
           IN  /\ r \in StarterState /\ r.step = t
               /\ r.boot = s.boot /\ r.key = s.key /\ r.fresh = s.fresh
               /\ r.alone = s.alone /\ r.credential = s.credential /\ r.secret = s.secret
BY DEF StarterState

LEMMA Keyed ==
    ASSUME NEW s \in StarterState, NEW k \in 0..MaxKeys
    PROVE  LET r == [s EXCEPT !.step = "keyed", !.key = k]
           IN  /\ r \in StarterState /\ r.step = "keyed" /\ r.key = k
               /\ r.boot = s.boot /\ r.alone = s.alone
BY DEF StarterState, Step, Holding

LEMMA Creating ==
    ASSUME NEW s \in StarterState, NEW k \in 0..MaxKeys
    PROVE  LET r == [s EXCEPT !.step = "creating", !.fresh = k]
           IN  /\ r \in StarterState /\ r.step = "creating" /\ r.fresh = k
               /\ r.boot = s.boot /\ r.alone = s.alone
BY DEF StarterState, Step

LEMMA Importing ==
    ASSUME NEW s \in StarterState, NEW n \in Imported
    PROVE  LET r == [s EXCEPT !.step = "importing", !.secret = n]
           IN  /\ r \in StarterState /\ r.step = "importing" /\ r.secret = n
               /\ r.boot = s.boot /\ r.alone = s.alone /\ r.key = s.key
BY DEF StarterState, Step, Holding

LEMMA CredentialStored ==
    ASSUME NEW s \in StarterState, NEW v \in Nat
    PROVE  LET r == [s EXCEPT !.step = "stored", !.credential = v]
           IN  /\ r \in StarterState /\ r.step = "stored" /\ r.credential = v
               /\ r.boot = s.boot /\ r.alone = s.alone /\ r.key = s.key
BY DEF StarterState, Step, Holding

LEMMA KeepBegins == KeepInit => KeepInv
<1> SUFFICES ASSUME KeepInit PROVE KeepInv
  OBVIOUS
<1> USE KeysAre DEF KeepInit
<1>1. /\ sealed \in [Secret -> [key : 0..MaxKeys, value : Nat]]
      /\ \A n \in Secret : sealed[n] \in {Absent, [key |-> 1, value |-> 1]}
      /\ legacy \in [Imported -> Nat]
      /\ schema = 0 => legacy = [n \in Imported |-> 0] /\ sealed = [n \in Secret |-> Absent]
      /\ schema # 0 => keyFile = 1 /\ sealed[Signing] = [key |-> 1, value |-> 1]
      /\ schema \in {0, Old, Current, Newer}
  BY DEF Absent, Secret, Signing, Old, Current, Newer
<1>2. keyFile \in 0..Torn /\ keysMade \in 0..MaxKeys /\ values \in Nat
  BY <1>1
<1>3. Gone \in StarterState /\ Gone.step = "gone" /\ ~Gone.boot
  BY GoneState
<1>4. KeepTypes
  BY <1>1, <1>2, <1>3 DEF KeepTypes
<1>5. KeysKnown /\ OneKey
  BY <1>1, <1>3 DEF KeysKnown, OneKey, Absent, Holding, Signing, Secret
<1>6. ImportsKnown /\ AloneKnown
  BY <1>1, <1>3 DEF ImportsKnown, AloneKnown, Absent, Imported
<1>7. SecretsAsDecided /\ CredentialWorks
  BY DEF SecretsAsDecided, CredentialWorks
<1> QED
  BY <1>4, <1>5, <1>6, <1>7 DEF KeepInv

(* The state of one process changes, and of no other. *)
LEMMA StarterMoves ==
    ASSUME KeepTypes, NEW p \in Starter, NEW s \in StarterState, Set(p, s)
    PROVE  /\ starter' \in [Starter -> StarterState] /\ starter'[p] = s
           /\ \A q \in Starter \ {p} : starter'[q] = starter[q]
BY DEF KeepTypes, Set

LEMMA Advances ==
    ASSUME KeepInv, NEW p \in Starter, NEW t \in Step, Set(p, [starter[p] EXCEPT !.step = t])
    PROVE  /\ starter' \in [Starter -> StarterState]
           /\ \A q \in Starter \ {p} : starter'[q] = starter[q]
           /\ starter'[p].step = t
           /\ starter'[p].boot = starter[p].boot /\ starter'[p].key = starter[p].key
           /\ starter'[p].fresh = starter[p].fresh /\ starter'[p].alone = starter[p].alone
           /\ starter'[p].credential = starter[p].credential
           /\ starter'[p].secret = starter[p].secret
<1> DEFINE s == [starter[p] EXCEPT !.step = t]
<1>1. starter[p] \in StarterState
  BY DEF KeepInv, KeepTypes
<1>2. /\ s \in StarterState /\ s.step = t
      /\ s.boot = starter[p].boot /\ s.key = starter[p].key /\ s.fresh = starter[p].fresh
      /\ s.alone = starter[p].alone /\ s.credential = starter[p].credential
      /\ s.secret = starter[p].secret
  BY <1>1, Stepped
<1> HIDE DEF s
<1>3. Set(p, s)
  BY DEF s
<1> QED
  BY <1>2, <1>3, StarterMoves DEF KeepInv

LEMMA TakesKey ==
    ASSUME KeepInv, NEW p \in Starter, NEW k \in 0..MaxKeys,
           Set(p, [starter[p] EXCEPT !.step = "keyed", !.key = k])
    PROVE  /\ starter' \in [Starter -> StarterState]
           /\ \A q \in Starter \ {p} : starter'[q] = starter[q]
           /\ starter'[p].step = "keyed" /\ starter'[p].key = k
           /\ starter'[p].boot = starter[p].boot /\ starter'[p].alone = starter[p].alone
<1> DEFINE s == [starter[p] EXCEPT !.step = "keyed", !.key = k]
<1>1. starter[p] \in StarterState
  BY DEF KeepInv, KeepTypes
<1>2. /\ s \in StarterState /\ s.step = "keyed" /\ s.key = k
      /\ s.boot = starter[p].boot /\ s.alone = starter[p].alone
  BY <1>1, Keyed
<1> HIDE DEF s
<1>3. Set(p, s)
  BY DEF s
<1> QED
  BY <1>2, <1>3, StarterMoves DEF KeepInv

-----------------------------------------------------------------------------
(* Beginnings and ends. *)
LEMMA StartStep ==
    ASSUME KeepInv, NEW p \in Starter, Start(p)
    PROVE  KeepInv'
<1>1. /\ UNCHANGED <<schema, sealed, keyFile, usageMade, published, legacy, decided,
                     overtaken, handed, keysMade, values>>
      /\ starter[p].step = "gone"
  BY DEF Start, At
<1>2. PICK boot \in BOOLEAN :
        /\ IF boot THEN schema = 0 /\ ~usageMade /\ keyFile = 0
                   ELSE schema # 0 /\ keyFile # 0
        /\ starter' = [q \in Starter |->
               IF q = p THEN [Gone EXCEPT !.step = "opened", !.boot = boot, !.alone = ~OthersRun(p)]
               ELSE [starter[q] EXCEPT !.alone = FALSE]]
  BY DEF Start
<1>3. /\ starter'[p] \in StarterState
      /\ starter'[p].step = "opened" /\ starter'[p].boot = boot
      /\ starter'[p].alone => \A q \in Starter \ {p} : starter[q].step = "gone"
  <2>1. PICK a \in BOOLEAN : a <=> ~OthersRun(p)
    <3>1. CASE OthersRun(p)
      <4> WITNESS FALSE \in BOOLEAN
      <4> QED BY <3>1
    <3>2. CASE ~OthersRun(p)
      <4> WITNESS TRUE \in BOOLEAN
      <4> QED BY <3>2
    <3> QED BY <3>1, <3>2
  <2>2. a = ~OthersRun(p)
    BY <2>1, Zenon
  <2> DEFINE g == [Gone EXCEPT !.step = "opened", !.boot = boot, !.alone = a]
  <2>3. g \in StarterState /\ g.step = "opened" /\ g.boot = boot /\ g.alone = a
    <3>1. Gone \in StarterState
      BY GoneState
    <3> QED
      BY <3>1 DEF StarterState, Step
  <2>4. starter'[p] = g
    BY <1>2, <2>2, Zenon
  <2> HIDE DEF g
  <2> QED
    BY <2>1, <2>3, <2>4 DEF OthersRun
<1>4. \A q \in Starter \ {p} :
          /\ starter'[q] \in StarterState
          /\ starter'[q].step = starter[q].step /\ starter'[q].boot = starter[q].boot
          /\ starter'[q].key = starter[q].key /\ starter'[q].fresh = starter[q].fresh
          /\ starter'[q].secret = starter[q].secret /\ ~starter'[q].alone
  BY <1>2 DEF KeepInv, KeepTypes, StarterState
<1>5. starter' \in [Starter -> StarterState]
  BY <1>2, <1>3, <1>4
<1>6. KeepTypes'
  BY <1>1, <1>5 DEF KeepInv, KeepTypes
<1>7. KeysKnown' /\ OneKey'
  BY <1>1, <1>3, <1>4 DEF KeepInv, KeysKnown, OneKey, NothingSealed, Holding
<1>8. ImportsKnown'
  BY <1>1, <1>2, <1>3, <1>4 DEF KeepInv, ImportsKnown
<1>9. AloneKnown'
  <2>1. handed' # 0 => \A q \in Starter : ~starter'[q].boot
    BY <1>1, <1>2, <1>3, <1>4 DEF KeepInv, AloneKnown, CredentialWorks, Current
  <2>2. \A q \in Starter \ {p} : starter'[q].step = starter[q].step /\ ~starter'[q].alone
                                /\ starter'[q].boot = starter[q].boot
    BY <1>4
  <2> QED
    BY <1>1, <1>3, <2>1, <2>2 DEF KeepInv, AloneKnown
<1>10. SecretsAsDecided' /\ CredentialWorks'
  BY <1>1 DEF KeepInv, SecretsAsDecided, CredentialWorks
<1> QED
  BY <1>6, <1>7, <1>8, <1>9, <1>10 DEF KeepInv

LEMMA FailStep ==
    ASSUME KeepInv, NEW p \in Starter, Fail(p)
    PROVE  KeepInv'
<1>1. UNCHANGED <<schema, sealed, keyFile, usageMade, published, legacy, decided,
                  overtaken, handed, keysMade, values>>
  BY DEF Fail
<1>2. /\ starter' \in [Starter -> StarterState] /\ starter'[p] = Gone
      /\ \A q \in Starter \ {p} : starter'[q] = starter[q]
  BY StarterMoves, GoneState DEF Fail, Set, KeepInv
<1>3. KeepTypes'
  BY <1>1, <1>2 DEF KeepInv, KeepTypes
<1>4. KeysKnown' /\ OneKey'
  BY <1>1, <1>2, GoneState DEF KeepInv, KeysKnown, OneKey, NothingSealed, Holding
<1>5. ImportsKnown' /\ AloneKnown'
  BY <1>1, <1>2, GoneState DEF KeepInv, ImportsKnown, AloneKnown
<1>6. SecretsAsDecided' /\ CredentialWorks'
  BY <1>1 DEF KeepInv, SecretsAsDecided, CredentialWorks
<1> QED
  BY <1>3, <1>4, <1>5, <1>6 DEF KeepInv

LEMMA InitializeStep ==
    ASSUME KeepInv, NEW p \in Starter, Initialize(p)
    PROVE  KeepInv'
<1>1. /\ UNCHANGED <<keyFile, usageMade, published, legacy, overtaken, handed, keysMade, values>>
      /\ schema <= Current /\ schema' = Current /\ starter[p].step = "opened"
      /\ sealed' = IF schema < Current THEN [sealed EXCEPT ![Retired] = Absent] ELSE sealed
      /\ decided' = IF schema < Current THEN [decided EXCEPT ![Retired] = 0] ELSE decided
  BY DEF Initialize, At
<1>2. starter[p] \in StarterState /\ "initialized" \in Step
  BY DEF KeepInv, KeepTypes, Step
<1>3. /\ starter' \in [Starter -> StarterState]
      /\ starter'[p].step = "initialized" /\ starter'[p].boot = starter[p].boot
      /\ starter'[p].alone = starter[p].alone
      /\ \A q \in Starter \ {p} : starter'[q] = starter[q]
  BY <1>2, Advances DEF Initialize
<1>4. /\ sealed' \in [Secret -> [key : 0..MaxKeys, value : Nat]]
      /\ decided' \in [Secret -> Nat] /\ schema' \in {0, Old, Current, Newer}
      /\ \A n \in Secret \ {Retired} : sealed'[n] = sealed[n] /\ decided'[n] = decided[n]
      /\ \/ sealed'[Retired] = sealed[Retired] /\ decided'[Retired] = decided[Retired]
         \/ sealed'[Retired] = Absent /\ decided'[Retired] = 0
      /\ Signing \in Secret \ {Retired} /\ Imported \subseteq Secret \ {Retired}
  <2>1. Absent \in [key : 0..MaxKeys, value : Nat] /\ Retired \in Secret
    BY KeysAre DEF Absent, Retired, Secret
  <2>2. Signing \in Secret \ {Retired} /\ Imported \subseteq Secret \ {Retired}
    BY DEF Secret, Retired, Signing, Imported
  <2> QED
    BY <1>1, <2>1, <2>2 DEF KeepInv, KeepTypes
<1>5. KeepTypes'
  BY <1>1, <1>3, <1>4 DEF KeepInv, KeepTypes
<1>6. NothingSealed' <=> NothingSealed
  BY <1>4 DEF KeepInv, KeysKnown, NothingSealed
<1>7. KeysKnown' /\ OneKey'
  BY <1>1, <1>3, <1>4, <1>6 DEF KeepInv, KeysKnown, OneKey, Holding
<1>8. ImportsKnown'
  BY <1>1, <1>3, <1>4 DEF KeepInv, ImportsKnown, Current
<1>9. AloneKnown'
  BY <1>1, <1>3, <1>4 DEF KeepInv, AloneKnown
<1>10. SecretsAsDecided' /\ CredentialWorks'
  BY <1>1, <1>4 DEF KeepInv, SecretsAsDecided, CredentialWorks, Absent, Signing
<1> QED
  BY <1>5, <1>7, <1>8, <1>9, <1>10 DEF KeepInv

-----------------------------------------------------------------------------
(* The key file. *)
LEMMA ReadKeyStep ==
    ASSUME KeepInv, NEW p \in Starter, ReadKey(p)
    PROVE  KeepInv'
<1>1. /\ UNCHANGED <<schema, sealed, keyFile, usageMade, published, legacy, decided,
                     overtaken, handed, values>>
      /\ starter[p].step = "initialized" /\ starter[p] \in StarterState
  BY DEF ReadKey, At, KeepInv, KeepTypes
<1>2. /\ starter' \in [Starter -> StarterState]
      /\ \A q \in Starter \ {p} : starter'[q] = starter[q]
      /\ starter'[p].boot = starter[p].boot /\ starter'[p].alone = starter[p].alone
      /\ \/ keyFile \in 1..MaxKeys /\ starter'[p].step = "keyed" /\ starter'[p].key = keyFile
         \/ /\ keyFile = 0 /\ NothingSealed
            /\ starter'[p].step = "creating" /\ starter'[p].fresh # 0
      /\ keysMade' \in 0..MaxKeys
  <2>1. CASE /\ Usable(keyFile) /\ UNCHANGED keysMade
             /\ Set(p, [starter[p] EXCEPT !.step = "keyed", !.key = keyFile])
    <3>1. keyFile \in 0..MaxKeys /\ keyFile \in 1..MaxKeys /\ keysMade' \in 0..MaxKeys
      BY <2>1 DEF Usable, KeepInv, KeepTypes
    <3> QED
      BY <2>1, <3>1, TakesKey
  <2>2. CASE /\ keyFile = 0 /\ NothingSealed /\ keysMade < MaxKeys
             /\ keysMade' = keysMade + 1
             /\ Set(p, [starter[p] EXCEPT !.step = "creating", !.fresh = keysMade'])
    <3> DEFINE s == [starter[p] EXCEPT !.step = "creating", !.fresh = keysMade']
    <3>1. keysMade' \in 0..MaxKeys /\ keysMade' # 0
      BY <2>2, KeysAre DEF KeepInv, KeepTypes
    <3>2. /\ s \in StarterState /\ s.step = "creating" /\ s.fresh = keysMade'
          /\ s.boot = starter[p].boot /\ s.alone = starter[p].alone
      BY <1>1, <3>1, Creating
    <3>3. Set(p, s)
      BY <2>2
    <3> HIDE DEF s
    <3> QED
      BY <2>2, <3>1, <3>2, <3>3, StarterMoves DEF KeepInv
  <2> QED
    BY <2>1, <2>2 DEF ReadKey
<1>3. KeepTypes'
  BY <1>1, <1>2 DEF KeepInv, KeepTypes
<1>4. KeysKnown' /\ OneKey'
  BY <1>1, <1>2, KeysAre DEF KeepInv, KeysKnown, OneKey, NothingSealed, Holding
<1>5. ImportsKnown' /\ AloneKnown'
  BY <1>1, <1>2 DEF KeepInv, ImportsKnown, AloneKnown
<1>6. SecretsAsDecided' /\ CredentialWorks'
  BY <1>1 DEF KeepInv, SecretsAsDecided, CredentialWorks
<1> QED
  BY <1>3, <1>4, <1>5, <1>6 DEF KeepInv

LEMMA CreateKeyStep ==
    ASSUME KeepInv, NEW p \in Starter, CreateKey(p)
    PROVE  KeepInv'
<1>1. /\ UNCHANGED <<schema, sealed, usageMade, published, legacy, decided, overtaken,
                     handed, keysMade, values>>
      /\ starter[p].step = "creating"
  BY DEF CreateKey, At
<1>2. /\ starter' \in [Starter -> StarterState]
      /\ \A q \in Starter \ {p} : starter'[q] = starter[q]
      /\ starter'[p].boot = starter[p].boot /\ starter'[p].alone = starter[p].alone
      /\ \/ /\ keyFile = 0 /\ keyFile' = Torn /\ starter'[p].step = "writing"
            /\ starter'[p].fresh = starter[p].fresh
         \/ /\ keyFile \in 1..MaxKeys /\ keyFile' = keyFile
            /\ starter'[p].step = "keyed" /\ starter'[p].key = keyFile
  <2>1. CASE keyFile = 0
    BY <2>1, Advances DEF CreateKey, Step
  <2>2. CASE keyFile # 0
    <3>1. keyFile \in 0..MaxKeys /\ keyFile \in 1..MaxKeys
      BY <2>2 DEF CreateKey, Usable
    <3> QED
      BY <2>2, <3>1, TakesKey DEF CreateKey
  <2> QED
    BY <2>1, <2>2
<1>3. KeepTypes'
  BY <1>1, <1>2, KeysAre DEF KeepInv, KeepTypes
<1>4. CASE keyFile = 0
  <2>1. NothingSealed /\ \A q \in Starter : starter[q].step \notin Holding \cup {"writing"}
    BY <1>1, <1>4, KeysAre DEF KeepInv, KeysKnown
  <2> QED
    <3>1. KeysKnown' /\ OneKey'
      BY <1>1, <1>2, <1>4, <2>1 DEF KeepInv, KeysKnown, OneKey, NothingSealed, Holding
    <3>2. ImportsKnown' /\ AloneKnown'
      BY <1>1, <1>2, <1>4 DEF KeepInv, ImportsKnown, AloneKnown
    <3> QED
      BY <1>1, <1>3, <3>1, <3>2 DEF KeepInv, SecretsAsDecided, CredentialWorks
<1>5. CASE keyFile # 0
  <2>1. KeysKnown' /\ OneKey'
    BY <1>1, <1>2, <1>5, KeysAre DEF KeepInv, KeysKnown, OneKey, NothingSealed, Holding
  <2>2. ImportsKnown' /\ AloneKnown'
    BY <1>1, <1>2, <1>5 DEF KeepInv, ImportsKnown, AloneKnown
  <2> QED
    BY <1>1, <1>3, <2>1, <2>2 DEF KeepInv, SecretsAsDecided, CredentialWorks
<1> QED
  BY <1>4, <1>5

LEMMA WriteKeyStep ==
    ASSUME KeepInv, NEW p \in Starter, WriteKey(p)
    PROVE  KeepInv'
<1>1. /\ UNCHANGED <<schema, sealed, usageMade, published, legacy, decided, overtaken,
                     handed, keysMade, values>>
      /\ starter[p].step = "writing" /\ starter[p].fresh \in 0..MaxKeys /\ starter[p].fresh # 0
      /\ keyFile = Torn /\ keyFile' = starter[p].fresh
  BY DEF WriteKey, At, KeepInv, KeepTypes, KeysKnown, StarterState
<1>2. /\ starter' \in [Starter -> StarterState]
      /\ \A q \in Starter \ {p} : starter'[q] = starter[q]
      /\ starter'[p].step = "keyed" /\ starter'[p].key = starter[p].fresh
      /\ starter'[p].boot = starter[p].boot /\ starter'[p].alone = starter[p].alone
  BY <1>1, TakesKey DEF WriteKey
<1>3. KeepTypes'
  BY <1>1, <1>2, KeysAre DEF KeepInv, KeepTypes
<1>4. /\ NothingSealed
      /\ \A q \in Starter \ {p} : starter[q].step \notin Holding \cup {"writing"}
  <2>1. keyFile # 0 /\ \A k \in 0..MaxKeys : keyFile # k
    BY <1>1, KeysAre
  <2>2. NothingSealed
    BY <2>1 DEF NothingSealed, KeepInv, OneKey, KeepTypes
  <2>3. ASSUME NEW q \in Starter, starter[q].step \in Holding PROVE FALSE
    BY <2>1, <2>3 DEF KeepInv, KeysKnown, KeepTypes, StarterState
  <2> QED
    BY <1>1, <2>2, <2>3 DEF KeepInv, KeysKnown
<1>5. KeysKnown' /\ OneKey'
  BY <1>1, <1>2, <1>4 DEF KeepInv, KeysKnown, OneKey, NothingSealed, Holding
<1>6. ImportsKnown' /\ AloneKnown'
  BY <1>1, <1>2 DEF KeepInv, ImportsKnown, AloneKnown
<1> QED
  BY <1>1, <1>3, <1>5, <1>6 DEF KeepInv, SecretsAsDecided, CredentialWorks

LEMMA LoseKeyStep ==
    ASSUME KeepInv, LoseKey
    PROVE  KeepInv'
<1>1. /\ UNCHANGED <<schema, sealed, usageMade, published, legacy, starter, decided, overtaken,
                     handed, keysMade, values>>
      /\ keyFile \in 1..MaxKeys /\ keyFile' = 0 /\ ~NothingSealed
      /\ \A p \in Starter : starter[p].step # "creating"
  BY DEF LoseKey, Usable, At
<1>2. KeepTypes'
  BY <1>1, KeysAre DEF KeepInv, KeepTypes
<1>3. \A p \in Starter : starter[p].step # "writing"
  BY <1>1, KeysAre DEF KeepInv, KeysKnown
<1>4. KeysKnown' /\ OneKey'
  BY <1>1, <1>3 DEF KeepInv, KeysKnown, OneKey, NothingSealed
<1>5. ImportsKnown' /\ AloneKnown' /\ SecretsAsDecided' /\ CredentialWorks'
  BY <1>1 DEF KeepInv, ImportsKnown, AloneKnown, SecretsAsDecided, CredentialWorks
<1> QED
  BY <1>2, <1>4, <1>5 DEF KeepInv

-----------------------------------------------------------------------------
(* The secrets.  Whoever seals one has the key of all others.              *)
LEMMA Sealing ==
    ASSUME KeepInv, NEW p \in Starter, starter[p].step \in Holding,
           NEW n \in Secret, NEW v \in Nat, Seal(p, n, v),
           n = Signing \/ sealed[Signing] # Absent,
           keyFile' = keyFile
    PROVE  /\ sealed' \in [Secret -> [key : 0..MaxKeys, value : Nat]]
           /\ sealed'[n].value = v /\ \A m \in Secret \ {n} : sealed'[m] = sealed[m]
           /\ \A m \in Secret : sealed'[m] # Absent =>
                  sealed'[m].key # 0 /\ sealed'[m].key = starter[p].key
           /\ sealed'[Signing] # Absent /\ ~NothingSealed'
           /\ \A q \in Starter : starter[q].step \in Holding => starter[q].key = starter[p].key
           /\ keyFile \in {0, starter[p].key} /\ OneKey'
<1>1. starter[p] \in StarterState /\ starter[p].key \in 0..MaxKeys /\ starter[p].key # 0
  BY DEF KeepInv, KeepTypes, KeysKnown, StarterState
<1>2. /\ sealed'[n] = [key |-> starter[p].key, value |-> v]
      /\ \A m \in Secret \ {n} : sealed'[m] = sealed[m]
      /\ sealed' \in [Secret -> [key : 0..MaxKeys, value : Nat]]
  BY <1>1 DEF Seal, KeepInv, KeepTypes
<1>3. sealed'[n] # Absent /\ sealed'[n].value = v /\ sealed'[n].key = starter[p].key
  BY <1>1, <1>2 DEF Absent
<1>4. \A m \in Secret : sealed'[m] # Absent =>
          sealed'[m].key # 0 /\ sealed'[m].key = starter[p].key
  BY <1>1, <1>2, <1>3 DEF KeepInv, KeysKnown
<1>5. keyFile \in {0, starter[p].key}
  BY DEF KeepInv, KeysKnown
<1>6. \A q \in Starter : starter[q].step \in Holding => starter[q].key = starter[p].key
  BY <1>5 DEF KeepInv, KeysKnown, NothingSealed
<1>7. Signing \in Secret
  BY DEF Signing, Secret
<1> QED
  BY <1>2, <1>3, <1>4, <1>5, <1>6, <1>7 DEF OneKey, NothingSealed

(* Sealing leaves what is known of the keys. *)
LEMMA SealingKeepsKeys ==
    ASSUME KeepInv, NEW p \in Starter, starter[p].step \in Holding,
           NEW n \in Secret, NEW v \in Nat, Seal(p, n, v),
           n = Signing \/ sealed[Signing] # Absent,
           keyFile' = keyFile,
           \A q \in Starter :
               \/ starter'[q] = starter[q]
               \/ /\ starter[q].step \in Holding /\ starter'[q].step \in Holding
                  /\ starter'[q].key = starter[q].key
    PROVE  KeysKnown' /\ OneKey'
<1>1. /\ \A m \in Secret : sealed'[m] # Absent =>
             sealed'[m].key # 0 /\ sealed'[m].key = starter[p].key
      /\ sealed'[Signing] # Absent /\ ~NothingSealed' /\ OneKey'
      /\ \A q \in Starter : starter[q].step \in Holding => starter[q].key = starter[p].key
      /\ keyFile \in {0, starter[p].key} /\ starter[p].key # 0
  BY Sealing DEF KeepInv, KeysKnown
<1>2. keyFile = 0 => ~NothingSealed
  BY DEF KeepInv, KeysKnown
<1>3. \A q \in Starter : starter'[q].step \in Holding =>
          starter[q].step \in Holding /\ starter'[q].key = starter[q].key
  OBVIOUS
<1>4. \A q \in Starter : starter'[q].step \in {"creating", "writing"} =>
          starter'[q] = starter[q]
  BY DEF Holding
<1> QED
  BY <1>1, <1>2, <1>3, <1>4 DEF KeepInv, KeysKnown

LEMMA FindLegacyStep ==
    ASSUME KeepInv, NEW p \in Starter, FindLegacy(p)
    PROVE  KeepInv'
<1>1. /\ UNCHANGED <<schema, sealed, keyFile, usageMade, published, legacy, decided, handed,
                     keysMade, values>>
      /\ starter[p].step = "keyed" /\ starter[p] \in StarterState
  BY DEF FindLegacy, At, KeepInv, KeepTypes
<1>2. /\ starter' \in [Starter -> StarterState]
      /\ \A q \in Starter \ {p} : starter'[q] = starter[q]
      /\ starter'[p].boot = starter[p].boot /\ starter'[p].alone = starter[p].alone
      /\ starter'[p].key = starter[p].key
      /\ \/ \E n \in Imported : /\ Importable(n) /\ overtaken' = overtaken \ {n}
                               /\ starter'[p].step = "importing" /\ starter'[p].secret = n
         \/ overtaken' = overtaken /\ starter'[p].step = AfterImport(p)
  <2>1. CASE \E n \in Imported : Importable(n)
    <3> DEFINE n == IF Importable("cpa_management_key") THEN "cpa_management_key"
                                                       ELSE "wecom_webhook"
               s == [starter[p] EXCEPT !.step = "importing", !.secret = n]
    <3>1. n \in Imported /\ Importable(n)
      BY <2>1 DEF Imported
    <3>2. Set(p, s) /\ overtaken' = overtaken \ {n}
      BY <2>1 DEF FindLegacy
    <3>3. /\ s \in StarterState /\ s.step = "importing" /\ s.secret = n
          /\ s.boot = starter[p].boot /\ s.alone = starter[p].alone /\ s.key = starter[p].key
      BY <1>1, <3>1, Importing
    <3> HIDE DEF s, n
    <3> QED
      BY <3>1, <3>2, <3>3, StarterMoves DEF KeepInv
  <2>2. CASE ~(\E n \in Imported : Importable(n))
    <3>1. AfterImport(p) \in Step
      BY DEF AfterImport, Step, Holding
    <3> QED
      BY <2>2, <3>1, Advances DEF FindLegacy
  <2> QED
    BY <2>1, <2>2
<1>3. overtaken' \subseteq Imported
  BY <1>2 DEF KeepInv, KeepTypes
<1>4. KeepTypes'
  BY <1>1, <1>2, <1>3 DEF KeepInv, KeepTypes
<1>5. starter'[p].step \in {"importing", "credential", "running"}
  BY <1>2 DEF AfterImport
<1>6. KeysKnown' /\ OneKey'
  BY <1>1, <1>2, <1>5 DEF KeepInv, KeysKnown, OneKey, NothingSealed, Holding
<1>7. \A n \in Imported : Importable(n) => legacy[n] # 0 /\ decided[n] = 0
  <2> SUFFICES ASSUME NEW n \in Imported, Importable(n) PROVE legacy[n] # 0 /\ decided[n] = 0
    OBVIOUS
  <2>1. legacy[n] # 0 /\ sealed[n].value = 0 /\ n \in Secret
    BY DEF Importable, Absent, Imported, Secret
  <2> QED
    BY <2>1 DEF KeepInv, SecretsAsDecided
<1>8. ImportsKnown'
  <2>1. \A n \in Imported : n \in overtaken => n \in overtaken' \/ decided[n] = 0
    BY <1>2, <1>7
  <2>2. ASSUME NEW q \in Starter, starter'[q].step = "importing"
        PROVE  /\ starter'[q].secret \in Imported /\ legacy[starter'[q].secret] # 0
               /\ decided[starter'[q].secret] = 0 \/ starter'[q].secret \in overtaken'
    <3>1. CASE q = p
      BY <1>2, <1>7, <2>2, <3>1 DEF AfterImport
    <3>2. CASE q # p
      BY <1>2, <2>1, <2>2, <3>2 DEF KeepInv, ImportsKnown
    <3> QED
      BY <3>1, <3>2
  <2>3. \A q \in Starter : starter'[q].boot = starter[q].boot
    BY <1>2
  <2> QED
    BY <1>1, <2>2, <2>3 DEF KeepInv, ImportsKnown
<1>9. AloneKnown'
  BY <1>1, <1>2 DEF KeepInv, AloneKnown, AfterImport
<1>10. SecretsAsDecided' /\ CredentialWorks'
  <2>1. \A n \in Imported : n \in overtaken => n \in overtaken' \/ decided[n] = 0
    BY <1>2, <1>7
  <2> QED
    BY <1>1, <2>1 DEF KeepInv, SecretsAsDecided, CredentialWorks
<1> QED
  BY <1>4, <1>6, <1>8, <1>9, <1>10 DEF KeepInv

LEMMA ImportStep ==
    ASSUME KeepInv, NEW p \in Starter, Import(p)
    PROVE  KeepInv'
<1> DEFINE n == starter[p].secret
<1>1. /\ UNCHANGED <<schema, keyFile, usageMade, published, legacy, decided, overtaken,
                     handed, keysMade, values>>
      /\ starter[p].step = "importing" /\ Seal(p, n, legacy[n])
  BY DEF Import, At
<1>2. /\ n \in Imported /\ legacy[n] # 0 /\ (decided[n] = 0 \/ n \in overtaken)
      /\ sealed[Signing] # Absent /\ legacy[n] \in Nat /\ n \in Secret
  BY <1>1 DEF KeepInv, ImportsKnown, KeepTypes, Imported, Secret
<1>3. /\ starter' \in [Starter -> StarterState]
      /\ \A q \in Starter \ {p} : starter'[q] = starter[q]
      /\ starter'[p].boot = starter[p].boot /\ starter'[p].alone = starter[p].alone
      /\ starter'[p].key = starter[p].key
      /\ starter'[p].step \in {"keyed", AfterImport(p)}
  <2> DEFINE t == IF starter[p].secret = "cpa_management_key" THEN "keyed" ELSE AfterImport(p)
  <2>1. t \in Step
    BY DEF AfterImport, Step, Holding
  <2> QED
    BY <2>1, Advances DEF Import
<1> HIDE DEF n
<1>4. /\ sealed' \in [Secret -> [key : 0..MaxKeys, value : Nat]]
      /\ sealed'[n].value = legacy[n] /\ \A m \in Secret \ {n} : sealed'[m] = sealed[m]
      /\ sealed'[Signing] # Absent
  BY <1>1, <1>2, Sealing DEF Holding
<1>5. KeepTypes'
  BY <1>1, <1>3, <1>4 DEF KeepInv, KeepTypes
<1>6. KeysKnown' /\ OneKey'
  BY <1>1, <1>2, <1>3, SealingKeepsKeys DEF Holding, AfterImport
<1>7. ImportsKnown'
  BY <1>1, <1>3, <1>4 DEF KeepInv, ImportsKnown, AfterImport
<1>8. ~starter[p].boot /\ handed = 0
  BY <1>2 DEF KeepInv, ImportsKnown, AloneKnown
<1>9. AloneKnown'
  <2>1. \A q \in Starter : starter[q].step \in {"stored", "publishing"} => ~starter[q].alone
    BY <1>1 DEF KeepInv, AloneKnown
  <2> QED
    BY <1>1, <1>3, <1>8, <2>1 DEF KeepInv, AloneKnown, AfterImport
<1>10. SecretsAsDecided' /\ CredentialWorks'
  BY <1>1, <1>2, <1>4, <1>8 DEF KeepInv, SecretsAsDecided, CredentialWorks
<1> QED
  BY <1>5, <1>6, <1>7, <1>9, <1>10 DEF KeepInv

LEMMA StoreCredentialStep ==
    ASSUME KeepInv, NEW p \in Starter, StoreCredential(p)
    PROVE  KeepInv'
<1>1. /\ UNCHANGED <<schema, keyFile, usageMade, published, legacy, overtaken, handed, keysMade>>
      /\ starter[p].step = "credential" /\ values' = values + 1
      /\ Seal(p, Signing, values')
      /\ decided' = [decided EXCEPT ![Signing] = values']
      /\ starter[p] \in StarterState
  BY DEF StoreCredential, At, Signing, KeepInv, KeepTypes
<1>2. /\ values' \in Nat /\ Signing \in Secret /\ Signing \in Imported
      /\ decided' \in [Secret -> Nat] /\ decided'[Signing] = values'
      /\ \A m \in Secret \ {Signing} : decided'[m] = decided[m]
  BY <1>1 DEF KeepInv, KeepTypes, Signing, Secret, Imported
<1>3. /\ starter' \in [Starter -> StarterState]
      /\ \A q \in Starter \ {p} : starter'[q] = starter[q]
      /\ starter'[p].boot = starter[p].boot /\ starter'[p].alone = starter[p].alone
      /\ starter'[p].key = starter[p].key
      /\ starter'[p].step = "stored" /\ starter'[p].credential = values'
  <2> DEFINE s == [starter[p] EXCEPT !.step = "stored", !.credential = values']
  <2>1. /\ s \in StarterState /\ s.step = "stored" /\ s.credential = values'
        /\ s.boot = starter[p].boot /\ s.alone = starter[p].alone /\ s.key = starter[p].key
    BY <1>1, <1>2, CredentialStored
  <2>2. Set(p, s)
    BY DEF StoreCredential
  <2> HIDE DEF s
  <2> QED
    BY <2>1, <2>2, StarterMoves DEF KeepInv
<1>4. /\ sealed' \in [Secret -> [key : 0..MaxKeys, value : Nat]]
      /\ sealed'[Signing].value = values'
      /\ \A m \in Secret \ {Signing} : sealed'[m] = sealed[m]
      /\ sealed'[Signing] # Absent
  BY <1>1, <1>2, Sealing DEF Holding
<1>5. KeepTypes'
  BY <1>1, <1>2, <1>3, <1>4 DEF KeepInv, KeepTypes
<1>6. KeysKnown' /\ OneKey'
  BY <1>1, <1>2, <1>3, SealingKeepsKeys DEF Holding
<1>7. starter[p].boot /\ handed = 0 /\ \A n \in Imported : legacy[n] = 0
  BY <1>1 DEF KeepInv, AloneKnown, ImportsKnown
<1>8. ImportsKnown'
  BY <1>1, <1>3, <1>4, <1>7 DEF KeepInv, ImportsKnown
<1>9. AloneKnown'
  <2>1. \A q \in Starter \ {p} : starter[q].step # "gone" => ~starter[q].alone
    BY <1>1 DEF KeepInv, AloneKnown
  <2>2. starter[p].alone => \A q \in Starter \ {p} : starter[q].step = "gone"
    BY <1>1 DEF KeepInv, AloneKnown
  <2>3. schema = Current
    BY <1>1 DEF KeepInv, AloneKnown
  <2>4. \A q \in Starter \ {p} : starter[q].step \in {"stored", "publishing"} => ~starter[q].alone
    BY <2>1
  <2> DEFINE Fine(q) ==
        /\ starter'[q].step = "gone" => ~starter'[q].boot
        /\ starter'[q].step \in {"credential", "stored", "publishing"} => starter'[q].boot
        /\ starter'[q].step \notin {"gone", "opened"} => schema = Current
        /\ starter'[q].step = "publishing" => usageMade
        /\ starter'[q].alone /\ starter'[q].step # "gone" =>
               \A r \in Starter \ {q} : starter'[r].step = "gone"
        /\ starter'[q].alone /\ starter'[q].step \in {"stored", "publishing"} =>
               sealed'[Signing].value = starter'[q].credential
  <2>5. Fine(p)
    BY <1>3, <1>4, <1>7, <2>2, <2>3
  <2>6. ASSUME NEW q \in Starter \ {p} PROVE Fine(q)
    BY <1>3, <2>1, <2>3, <2>4 DEF KeepInv, AloneKnown
  <2> QED
    BY <1>1, <1>7, <2>5, <2>6 DEF AloneKnown
<1>10. SecretsAsDecided' /\ CredentialWorks'
  BY <1>1, <1>2, <1>4, <1>7 DEF KeepInv, SecretsAsDecided, CredentialWorks
<1> QED
  BY <1>5, <1>6, <1>8, <1>9, <1>10 DEF KeepInv

(* What signs in does not change while the bootstrap that stored it is     *)
(* alone.                                                                  *)
LEMMA CreateUsageStep ==
    ASSUME KeepInv, NEW p \in Starter, CreateUsage(p)
    PROVE  KeepInv'
<1>1. /\ UNCHANGED <<schema, sealed, keyFile, published, legacy, decided, overtaken, handed,
                     keysMade, values>>
      /\ starter[p].step = "stored" /\ usageMade' = TRUE
  BY DEF CreateUsage, At
<1>2. /\ starter' \in [Starter -> StarterState]
      /\ \A q \in Starter \ {p} : starter'[q] = starter[q]
      /\ starter'[p].boot = starter[p].boot /\ starter'[p].alone = starter[p].alone
      /\ starter'[p].key = starter[p].key /\ starter'[p].credential = starter[p].credential
      /\ starter'[p].step = "publishing"
  BY Advances DEF CreateUsage, Step, Holding
<1>3. KeepTypes'
  BY <1>1, <1>2 DEF KeepInv, KeepTypes
<1>4. KeysKnown' /\ OneKey'
  BY <1>1, <1>2 DEF KeepInv, KeysKnown, OneKey, NothingSealed, Holding
<1>5. ImportsKnown' /\ AloneKnown'
  BY <1>1, <1>2 DEF KeepInv, ImportsKnown, AloneKnown
<1> QED
  BY <1>1, <1>3, <1>4, <1>5 DEF KeepInv, SecretsAsDecided, CredentialWorks

LEMMA HandOutStep ==
    ASSUME KeepInv, NEW p \in Starter, HandOut(p)
    PROVE  KeepInv'
<1>1. /\ UNCHANGED <<schema, sealed, keyFile, usageMade, legacy, decided, overtaken, keysMade,
                     values>>
      /\ starter[p].step = "publishing" /\ published' = TRUE
      /\ handed' = IF starter[p].alone THEN starter[p].credential ELSE handed
  BY DEF HandOut, At
<1>2. /\ starter' \in [Starter -> StarterState] /\ starter'[p] = Gone
      /\ \A q \in Starter \ {p} : starter'[q] = starter[q]
  BY StarterMoves, GoneState DEF HandOut, Set, KeepInv
<1>3. handed' \in Nat
  BY <1>1 DEF KeepInv, KeepTypes, StarterState
<1>4. KeepTypes'
  BY <1>1, <1>2, <1>3 DEF KeepInv, KeepTypes
<1>5. KeysKnown' /\ OneKey'
  BY <1>1, <1>2, GoneState DEF KeepInv, KeysKnown, OneKey, NothingSealed, Holding
<1>6. ImportsKnown'
  BY <1>1, <1>2, GoneState DEF KeepInv, ImportsKnown
<1>7. /\ schema = Current /\ usageMade /\ starter[p].boot
      /\ \A n \in Imported : legacy[n] = 0
      /\ starter[p].alone => /\ sealed[Signing].value = starter[p].credential
                             /\ \A q \in Starter \ {p} : ~starter[q].boot
  BY <1>1 DEF KeepInv, AloneKnown, ImportsKnown
<1>8. AloneKnown'
  BY <1>1, <1>2, <1>7, GoneState DEF KeepInv, AloneKnown
<1>9. SecretsAsDecided' /\ CredentialWorks'
  <2>1. SecretsAsDecided'
    BY <1>1 DEF KeepInv, SecretsAsDecided
  <2>2. CASE starter[p].alone
    BY <1>1, <1>7, <2>1, <2>2 DEF CredentialWorks, Signing
  <2>3. CASE ~starter[p].alone
    BY <1>1, <2>1, <2>3 DEF KeepInv, CredentialWorks
  <2> QED
    BY <2>2, <2>3
<1> QED
  BY <1>4, <1>5, <1>6, <1>8, <1>9 DEF KeepInv

LEMMA WriteSecretStep ==
    ASSUME KeepInv, NEW p \in Starter, NEW n \in Imported, WriteSecret(p, n)
    PROVE  KeepInv'
<1>1. /\ UNCHANGED <<schema, keyFile, usageMade, published, legacy, starter, keysMade>>
      /\ starter[p].step = "running" /\ sealed[Signing] # Absent
      /\ values' = values + 1 /\ Seal(p, n, values')
      /\ decided' = [decided EXCEPT ![n] = values'] /\ overtaken' = overtaken \cup {n}
      /\ handed' = IF n = Signing THEN 0 ELSE handed
  BY DEF WriteSecret, SignedIn, At, Signing
<1>2. /\ values' \in Nat /\ n \in Secret
      /\ decided' \in [Secret -> Nat] /\ decided'[n] = values'
      /\ \A m \in Secret \ {n} : decided'[m] = decided[m]
  BY <1>1 DEF KeepInv, KeepTypes, Secret, Imported
<1>3. /\ sealed' \in [Secret -> [key : 0..MaxKeys, value : Nat]]
      /\ sealed'[n].value = values' /\ sealed'[Signing] # Absent
      /\ \A m \in Secret \ {n} : sealed'[m] = sealed[m]
  BY <1>1, <1>2, Sealing DEF Holding
<1>4. KeepTypes'
  BY <1>1, <1>2, <1>3 DEF KeepInv, KeepTypes
<1>5. KeysKnown' /\ OneKey'
  BY <1>1, <1>2, SealingKeepsKeys DEF Holding
<1>6. ImportsKnown'
  <2>1. \A m \in Imported : decided[m] = 0 \/ m \in overtaken =>
            decided'[m] = 0 \/ m \in overtaken'
    BY <1>1, <1>2 DEF Imported, Secret
  <2> QED
    BY <1>1, <1>3, <2>1 DEF KeepInv, ImportsKnown
<1>7. AloneKnown'
  <2>1. \A q \in Starter : starter[q].step \in {"stored", "publishing"} => ~starter[q].alone
    BY <1>1 DEF KeepInv, AloneKnown
  <2> QED
    BY <1>1, <2>1 DEF KeepInv, AloneKnown
<1>8. SecretsAsDecided' /\ CredentialWorks'
  BY <1>1, <1>2, <1>3 DEF KeepInv, SecretsAsDecided, CredentialWorks, Signing, Secret
<1> QED
  BY <1>4, <1>5, <1>6, <1>7, <1>8 DEF KeepInv

LEMMA DeleteSecretStep ==
    ASSUME KeepInv, NEW p \in Starter, NEW n \in Imported, DeleteSecret(p, n)
    PROVE  KeepInv'
<1>1. /\ UNCHANGED <<schema, keyFile, usageMade, published, legacy, starter, overtaken,
                     handed, keysMade, values>>
      /\ n # Signing /\ n \in Secret /\ sealed[Signing] # Absent
      /\ sealed' = [sealed EXCEPT ![n] = Absent] /\ decided' = [decided EXCEPT ![n] = 0]
  BY DEF DeleteSecret, SignedIn, Signing, Secret
<1>2. Absent \in [key : 0..MaxKeys, value : Nat] /\ Absent.value = 0 /\ Signing \in Secret
  BY KeysAre DEF Absent, Signing, Secret
<1>3. /\ sealed' \in [Secret -> [key : 0..MaxKeys, value : Nat]]
      /\ decided' \in [Secret -> Nat]
      /\ sealed'[n] = Absent /\ decided'[n] = 0
      /\ \A m \in Secret \ {n} : sealed'[m] = sealed[m] /\ decided'[m] = decided[m]
      /\ sealed'[Signing] = sealed[Signing]
  BY <1>1, <1>2 DEF KeepInv, KeepTypes
<1>4. KeepTypes'
  BY <1>1, <1>3 DEF KeepInv, KeepTypes
<1>5. ~NothingSealed /\ ~NothingSealed'
  BY <1>1, <1>2, <1>3 DEF NothingSealed
<1>6. KeysKnown' /\ OneKey'
  BY <1>1, <1>3, <1>5 DEF KeepInv, KeysKnown, OneKey
<1>7. ImportsKnown' /\ AloneKnown'
  BY <1>1, <1>3 DEF KeepInv, ImportsKnown, AloneKnown, Imported, Secret
<1>8. SecretsAsDecided' /\ CredentialWorks'
  BY <1>1, <1>2, <1>3 DEF KeepInv, SecretsAsDecided, CredentialWorks, Signing
<1> QED
  BY <1>4, <1>6, <1>7, <1>8 DEF KeepInv

-----------------------------------------------------------------------------
LEMMA KeepInductive == KeepInv /\ [KeepNext]_keepVars => KeepInv'
<1> SUFFICES ASSUME KeepInv, [KeepNext]_keepVars PROVE KeepInv'
  OBVIOUS
<1>1. CASE LoseKey
  BY <1>1, LoseKeyStep
<1>2. ASSUME NEW p \in Starter,
             \/ Start(p) \/ Fail(p) \/ Initialize(p) \/ ReadKey(p) \/ CreateKey(p)
             \/ WriteKey(p) \/ FindLegacy(p) \/ Import(p) \/ StoreCredential(p)
             \/ CreateUsage(p) \/ HandOut(p)
      PROVE  KeepInv'
  BY <1>2, StartStep, FailStep, InitializeStep, ReadKeyStep, CreateKeyStep, WriteKeyStep,
     FindLegacyStep, ImportStep, StoreCredentialStep, CreateUsageStep, HandOutStep
<1>3. ASSUME NEW p \in Starter, NEW n \in Imported, WriteSecret(p, n) \/ DeleteSecret(p, n)
      PROVE  KeepInv'
  BY <1>3, WriteSecretStep, DeleteSecretStep
<1>4. CASE UNCHANGED keepVars
  BY <1>4 DEF keepVars, KeepInv, KeepTypes, KeysKnown, ImportsKnown, AloneKnown, OneKey,
     SecretsAsDecided, CredentialWorks, NothingSealed
<1> QED
  BY <1>1, <1>2, <1>3, <1>4 DEF KeepNext

(* KeysAndSecretsKept.  However bootstraps and programs race, die or lose  *)
(* the key file, all secrets are sealed with one key and no key file holds *)
(* another one; secrets have the values decided last; a credential that    *)
(* was handed out signs in.                                                *)
THEOREM KeysAndSecretsAlwaysKept == KeepSpec => []KeysAndSecretsKept
<1>1. KeepInv => KeysAndSecretsKept
  BY DEF KeepInv, KeysAndSecretsKept
<1> QED
  BY <1>1, KeepBegins, KeepInductive, PTL DEF KeepSpec

-----------------------------------------------------------------------------
(* Teams.  Whoever copies memberships read them before, so the invariant      *)
(* keeps what each reader holds within what was true since its read.         *)

Team == Group \cup {NoGroup}
RowStates == {"absent", "active", "revoked"}
Membership == [found : BOOLEAN, team : Team, version : Nat]
Reading == [Human -> Membership]
Request == [step : {"none", "set", "read", "sync"}, users : SUBSET Human, team : Team,
            expected : SUBSET Team, read : Reading \cup {<<>>}]
Identity == [known : BOOLEAN, team : Team, version : Nat]

(* What the fields of the teams' model contain.                            *)
TeamTypes ==
    /\ teams \subseteq Group
    /\ rowsOf \in [Human -> RowStates]
    /\ keyOf \in [Human -> Nat]
    /\ member \in Reading
    /\ identity \in [Human -> [KeyNumbers -> Identity]]
    /\ clerk \in [Clerk -> Request]
    /\ \/ userOp = NoUserOp
       \/ userOp \in [kind : {"create", "delete"}, user : Human, before : Membership,
                      rows : RowStates, teamChanged : BOOLEAN]
    /\ round \in [step : {"idle", "keys", "identified", "read", "drain"}, users : SUBSET Human,
                  keys : SUBSET (Human \X Nat), read : Reading \cup {<<>>}]
    /\ window \in [Readers -> [Human -> SUBSET Membership]]
    /\ late \subseteq Human

(* What somebody has read and will write held since it was read.           *)
ReadingsHeld ==
    /\ \A c \in Clerk : clerk[c].step = "sync" =>
           clerk[c].read \in Reading /\ \A u \in Human : clerk[c].read[u] \in window[c][u]
    /\ round.step = "read" =>
           round.read \in Reading /\ \A u \in Human : round.read[u] \in window["collector"][u]

(* A compensation brings no membership of nobody back.                     *)
CompensationKnown ==
    /\ userOp.kind = "create" =>
           (userOp.before.found \/ (~userOp.teamChanged /\ member[userOp.user].found)
            => userOp.rows # "absent" \/ userOp.user \in late)
    /\ userOp.kind = "delete" => userOp.rows # "absent"

TeamsInv ==
    /\ TeamTypes /\ ReadingsHeld /\ CompensationKnown
    /\ RecordedForCurrentTeam /\ MembershipsAgree

-----------------------------------------------------------------------------
LEMMA InitialMembership ==
    /\ NotMember \in Membership /\ NoIdentity \in Identity
    /\ \A m \in Membership : Identified(m) \in Identity
BY DEF NotMember, NoIdentity, Membership, Identity, Team, Identified

LEMMA TeamsBegin == TeamsInit => TeamsInv
<1> SUFFICES ASSUME TeamsInit PROVE TeamsInv
  OBVIOUS
<1> USE TeamsAssumption, InitialMembership DEF TeamsInit
<1>1. TeamTypes
  <2>1. teams \subseteq Group
    OBVIOUS
  <2>2. clerk \in [Clerk -> Request]
    BY DEF NoRequest, Request, Team
  <2>3. round \in [step : {"idle", "keys", "identified", "read", "drain"},
                   users : SUBSET Human, keys : SUBSET (Human \X Nat),
                   read : Reading \cup {<<>>}]
    BY DEF NoRound
  <2>4. identity \in [Human -> [KeyNumbers -> Identity]]
    OBVIOUS
  <2>5. window \in [Readers -> [Human -> SUBSET Membership]]
    OBVIOUS
  <2> QED
    BY <2>1, <2>2, <2>3, <2>4, <2>5 DEF TeamTypes, RowStates, Reading
<1>2. ReadingsHeld
  BY DEF ReadingsHeld, NoRequest, NoRound
<1>3. CompensationKnown
  BY DEF CompensationKnown, NoUserOp
<1>4. RecordedForCurrentTeam
  BY DEF RecordedForCurrentTeam, NoRound
<1>5. MembershipsAgree
  BY DEF MembershipsAgree, Referable, NotMember
<1> QED
  BY <1>1, <1>2, <1>3, <1>4, <1>5 DEF TeamsInv

-----------------------------------------------------------------------------
(* Memberships: no window loses anything, and each gets the new ones.      *)
LEMMA WindowsGrow ==
    ASSUME TeamTypes, NEW new \in Reading, Memberships(new)
    PROVE  /\ member' = new /\ member' \in Reading
           /\ window' \in [Readers -> [Human -> SUBSET Membership]]
           /\ \A r \in Readers, u \in Human :
                  window[r][u] \subseteq window'[r][u] /\ new[u] \in window'[r][u]
BY DEF TeamTypes, Memberships, Reading

(* A new reading opens the reader's window and closes no other.            *)
LEMMA WindowOpens ==
    ASSUME TeamTypes, NEW r \in Readers, window' = WindowFrom(r)
    PROVE  /\ window' \in [Readers -> [Human -> SUBSET Membership]]
           /\ \A u \in Human : member[u] \in window'[r][u]
           /\ \A q \in Readers \ {r}, u \in Human : window'[q][u] = window[q][u]
BY DEF TeamTypes, WindowFrom, Reading

(* What is copied is what was read; other keys keep what they have.        *)
LEMMA Copied ==
    ASSUME TeamTypes, NEW users \in SUBSET Human, NEW read \in Reading,
           SyncUserTeams(users, read)
    PROVE  /\ identity' \in [Human -> [KeyNumbers -> Identity]]
           /\ \A u \in Human, n \in KeyNumbers : identity'[u][n] =
                  IF u \in users /\ identity[u][n].known THEN Identified(read[u])
                                                        ELSE identity[u][n]
BY InitialMembership DEF TeamTypes, SyncUserTeams, Reading

(* As long as windows only grow and nothing is recorded, a round's record  *)
(* and the readings under way stay within them.                            *)
LEMMA RecordKept ==
    ASSUME TeamsInv, window' \in [Readers -> [Human -> SUBSET Membership]],
           \A r \in Readers, u \in Human : window[r][u] \subseteq window'[r][u],
           UNCHANGED <<identity, round>>
    PROVE  /\ RecordedForCurrentTeam'
           /\ round'.step = "read" => /\ round'.read \in Reading
                 /\ \A u \in Human : round'.read[u] \in window'["collector"][u]
           /\ \A c \in Clerk : clerk'[c] = clerk[c] /\ clerk'[c].step = "sync" =>
                  /\ clerk'[c].read \in Reading
                  /\ \A u \in Human : clerk'[c].read[u] \in window'[c][u]
<1>1. "collector" \in Readers /\ Clerk \subseteq Readers
  BY DEF Readers
<1>2. RecordedForCurrentTeam'
  BY <1>1 DEF RecordedForCurrentTeam, TeamsInv, TeamTypes
<1>3. round'.step = "read" => /\ round'.read \in Reading
          /\ \A u \in Human : round'.read[u] \in window'["collector"][u]
  BY <1>1 DEF TeamsInv, ReadingsHeld
<1>4. ASSUME NEW c \in Clerk, clerk'[c] = clerk[c], clerk'[c].step = "sync"
      PROVE  /\ clerk'[c].read \in Reading
             /\ \A u \in Human : clerk'[c].read[u] \in window'[c][u]
  BY <1>1, <1>4 DEF TeamsInv, ReadingsHeld
<1> QED
  BY <1>2, <1>3, <1>4

-----------------------------------------------------------------------------
(* The catalog of teams. *)
LEMMA CatalogStep ==
    ASSUME TeamsInv, CreateTeam \/ DeleteTeam
    PROVE  TeamsInv'
<1>1. /\ UNCHANGED <<rowsOf, keyOf, member, identity, clerk, userOp, round, window, late>>
      /\ teams' \subseteq Group
      /\ \A u \in Human : Referable(member[u])'
  BY DEF CreateTeam, DeleteTeam, TeamsInv, TeamTypes, MembershipsAgree, Referable, Empty
<1>2. TeamTypes'
  BY <1>1 DEF TeamsInv, TeamTypes, Readers
<1>3. ReadingsHeld' /\ CompensationKnown' /\ RecordedForCurrentTeam'
  BY <1>1 DEF TeamsInv, ReadingsHeld, CompensationKnown, RecordedForCurrentTeam
<1>4. MembershipsAgree'
  BY <1>1 DEF TeamsInv, MembershipsAgree, Known
<1> QED
  BY <1>2, <1>3, <1>4 DEF TeamsInv

-----------------------------------------------------------------------------
(* The requests. *)
LEMMA RequestSteps ==
    /\ NoRequest \in Request /\ NoRequest.step = "none"
    /\ \A q \in Request :
           /\ [q EXCEPT !.step = "read"] \in Request
           /\ [q EXCEPT !.step = "read"].step = "read"
           /\ \A m \in Reading :
                  /\ [q EXCEPT !.step = "sync", !.read = m] \in Request
                  /\ [q EXCEPT !.step = "sync", !.read = m].read = m
    /\ \A users \in SUBSET Human, t \in Team, expected \in SUBSET Team :
           LET q == [NoRequest EXCEPT !.step = "set", !.users = users, !.team = t,
                                      !.expected = expected]
           IN  q \in Request /\ q.step = "set"
BY DEF NoRequest, Request, Team

LEMMA LookUpStep ==
    ASSUME TeamsInv, NEW c \in Clerk, LookUp(c) \/ ClerkFails(c)
    PROVE  TeamsInv'
<1>1. /\ UNCHANGED <<teams, rowsOf, keyOf, member, identity, userOp, round, window, late>>
      /\ \E q \in Request : q.step # "sync" /\ clerk' = [clerk EXCEPT ![c] = q]
  <2>1. CASE LookUp(c)
    <3>1. PICK users \in (SUBSET Known) \ {{}}, t \in Group \cup {NoGroup},
               expected \in {{}} \cup {{x} : x \in Group \cup {NoGroup}} :
             clerk' = [clerk EXCEPT ![c] = [NoRequest EXCEPT !.step = "set", !.users = users,
                                              !.team = t, !.expected = expected]]
      BY <2>1 DEF LookUp
    <3>2. users \in SUBSET Human /\ t \in Team /\ expected \in SUBSET Team
      BY DEF Known, Team
    <3> QED
      BY <2>1, <3>1, <3>2, RequestSteps DEF LookUp, clerkFrame
  <2>2. CASE ClerkFails(c)
    BY <2>2, RequestSteps DEF ClerkFails, clerkFrame, NoRequest
  <2> QED
    BY <2>1, <2>2
<1>2. /\ clerk' \in [Clerk -> Request]
      /\ \A d \in Clerk : clerk'[d] = clerk[d] \/ clerk'[d].step # "sync"
  BY <1>1 DEF TeamsInv, TeamTypes
<1>3. TeamTypes'
  BY <1>1, <1>2 DEF TeamsInv, TeamTypes
<1>4. ReadingsHeld' /\ RecordedForCurrentTeam'
  BY <1>1, <1>2 DEF TeamsInv, ReadingsHeld, RecordedForCurrentTeam
<1>5. CompensationKnown' /\ MembershipsAgree'
  BY <1>1 DEF TeamsInv, CompensationKnown, MembershipsAgree, Known, Referable
<1> QED
  BY <1>3, <1>4, <1>5 DEF TeamsInv

LEMMA SetStep ==
    ASSUME TeamsInv, NEW c \in Clerk, SetUserTeamsExpected(c)
    PROVE  TeamsInv'
<1> DEFINE users == clerk[c].users  t == clerk[c].team
           new == [u \in Human |-> IF u \in users THEN Assigned(member[u], t) ELSE member[u]]
<1>1. /\ UNCHANGED <<teams, rowsOf, keyOf, userOp, round, identity>>
      /\ clerk' = [clerk EXCEPT ![c].step = "read"]
      /\ Memberships(new)
      /\ t \in teams \cup {NoGroup}
      /\ late' = late \cup {u \in users : /\ new[u] # member[u]
                                          /\ u \notin Known \/ userOp.user = u}
  BY DEF SetUserTeamsExpected, clerkFrame
<1>2. users \subseteq Human /\ t \in Team
  BY DEF TeamsInv, TeamTypes, Request
<1>3. \A u \in Human : Assigned(member[u], t) \in Membership
  BY <1>2 DEF TeamsInv, TeamTypes, Reading, Membership, Assigned
<1>4. new \in Reading
  BY <1>3 DEF TeamsInv, TeamTypes, Reading
<1>5. /\ member' = new /\ member' \in Reading
      /\ window' \in [Readers -> [Human -> SUBSET Membership]]
      /\ \A r \in Readers, u \in Human : window[r][u] \subseteq window'[r][u]
  BY <1>1, <1>4, WindowsGrow DEF TeamsInv
<1>6. /\ clerk' \in [Clerk -> Request]
      /\ \A d \in Clerk : clerk'[d] = clerk[d] \/ clerk'[d].step # "sync"
  BY <1>1, RequestSteps DEF TeamsInv, TeamTypes
<1>7. late' \subseteq Human /\ late \subseteq late'
  BY <1>1, <1>2 DEF TeamsInv, TeamTypes
<1>8. TeamTypes'
  BY <1>1, <1>5, <1>6, <1>7 DEF TeamsInv, TeamTypes
<1>9. RecordedForCurrentTeam' /\ ReadingsHeld'
  BY <1>1, <1>5, <1>6, RecordKept DEF ReadingsHeld
<1>10. \A u \in Human : /\ member'[u].team \in {member[u].team, t}
                        /\ member'[u] = member[u] \/ u \in late' \/ (u \in Known /\ userOp.user # u)
  BY <1>1, <1>2, <1>5 DEF Assigned
<1>11. MembershipsAgree'
  BY <1>1, <1>7, <1>10 DEF TeamsInv, MembershipsAgree, Referable, Known
<1>12. CompensationKnown'
  BY <1>1, <1>7, <1>10 DEF TeamsInv, CompensationKnown, TeamTypes, NoUserOp
<1> QED
  BY <1>8, <1>9, <1>11, <1>12 DEF TeamsInv

LEMMA ReadBackStep ==
    ASSUME TeamsInv, NEW c \in Clerk, ReadBack(c)
    PROVE  TeamsInv'
<1>1. /\ UNCHANGED <<teams, rowsOf, keyOf, userOp, round, member, identity, late>>
      /\ clerk' = [clerk EXCEPT ![c] = [@ EXCEPT !.step = "sync", !.read = member]]
      /\ window' = WindowFrom(c)
  BY DEF ReadBack, clerkFrame
<1>2. c \in Readers /\ c # "collector" /\ "collector" \in Readers /\ Clerk \subseteq Readers
  BY TeamsAssumption DEF Readers
<1>3. /\ window' \in [Readers -> [Human -> SUBSET Membership]]
      /\ \A u \in Human : member[u] \in window'[c][u]
      /\ \A q \in Readers \ {c}, u \in Human : window'[q][u] = window[q][u]
  BY <1>1, <1>2, WindowOpens DEF TeamsInv
<1>4. /\ clerk' \in [Clerk -> Request]
      /\ clerk'[c].read = member
      /\ \A d \in Clerk \ {c} : clerk'[d] = clerk[d]
  <2> DEFINE q == [clerk[c] EXCEPT !.step = "sync", !.read = member]
  <2>1. clerk[c] \in Request /\ member \in Reading
    BY DEF TeamsInv, TeamTypes
  <2>2. q \in Request /\ q.read = member
    BY <2>1, RequestSteps
  <2>3. clerk' = [clerk EXCEPT ![c] = q]
    BY <1>1
  <2> QED
    BY <2>2, <2>3 DEF TeamsInv, TeamTypes
<1>5. TeamTypes'
  BY <1>1, <1>3, <1>4 DEF TeamsInv, TeamTypes
<1>6. ReadingsHeld'
  BY <1>1, <1>2, <1>3, <1>4 DEF TeamsInv, TeamTypes, ReadingsHeld
<1>7. RecordedForCurrentTeam'
  BY <1>1, <1>2, <1>3 DEF TeamsInv, TeamTypes, RecordedForCurrentTeam
<1>8. CompensationKnown' /\ MembershipsAgree'
  BY <1>1 DEF TeamsInv, CompensationKnown, MembershipsAgree, Known, Referable
<1> QED
  BY <1>5, <1>6, <1>7, <1>8 DEF TeamsInv

LEMMA SyncAssignedStep ==
    ASSUME TeamsInv, NEW c \in Clerk, SyncAssigned(c)
    PROVE  TeamsInv'
<1>1. /\ UNCHANGED <<teams, rowsOf, keyOf, userOp, round, member, late>>
      /\ clerk[c].step = "sync" /\ clerk' = [clerk EXCEPT ![c] = NoRequest]
      /\ SyncUserTeams(clerk[c].users, clerk[c].read)
      /\ window' = [window EXCEPT !["collector"] = [u \in Human |->
                       @[u] \cup (IF u \in clerk[c].users THEN window[c][u] ELSE {})]]
  BY DEF SyncAssigned, clerkFrame
<1>2. "collector" \in Readers /\ Clerk \subseteq Readers /\ "collector" \notin Clerk
  BY TeamsAssumption DEF Readers
<1>3. /\ clerk[c].users \subseteq Human /\ clerk[c].read \in Reading
      /\ \A u \in Human : clerk[c].read[u] \in window[c][u]
  BY <1>1 DEF TeamsInv, TeamTypes, ReadingsHeld, Request
<1>4. /\ identity' \in [Human -> [KeyNumbers -> Identity]]
      /\ \A u \in Human, n \in KeyNumbers : identity'[u][n] =
             IF u \in clerk[c].users /\ identity[u][n].known THEN Identified(clerk[c].read[u])
                                                            ELSE identity[u][n]
  BY <1>1, <1>3, Copied DEF TeamsInv
<1>5. window' \in [Readers -> [Human -> SUBSET Membership]]
  BY <1>1, <1>2 DEF TeamsInv, TeamTypes
<1>6. /\ \A r \in Readers, u \in Human : window[r][u] \subseteq window'[r][u]
      /\ \A u \in clerk[c].users : window[c][u] \subseteq window'["collector"][u]
  BY <1>1, <1>2, <1>3 DEF TeamsInv, TeamTypes
<1>7. /\ clerk' \in [Clerk -> Request]
      /\ \A d \in Clerk : clerk'[d] = clerk[d] \/ clerk'[d].step # "sync"
  BY <1>1, RequestSteps DEF TeamsInv, TeamTypes
<1>8. TeamTypes'
  BY <1>1, <1>4, <1>5, <1>7 DEF TeamsInv, TeamTypes
<1>9. ReadingsHeld'
  BY <1>1, <1>2, <1>6, <1>7 DEF TeamsInv, ReadingsHeld
<1>10. RecordedForCurrentTeam'
  <2> SUFFICES ASSUME round.step = "drain", NEW u \in round.users, NEW n \in KeyNumbers,
                      identity'[u][n].known
               PROVE  \E m \in window'["collector"][u] : identity'[u][n] = Identified(m)
    BY <1>1 DEF RecordedForCurrentTeam
  <2>1. u \in Human
    BY DEF TeamsInv, TeamTypes
  <2>2. CASE u \in clerk[c].users /\ identity[u][n].known
    BY <1>3, <1>4, <1>6, <2>1, <2>2
  <2>3. CASE ~(u \in clerk[c].users /\ identity[u][n].known)
    BY <1>2, <1>4, <1>6, <2>1, <2>3 DEF TeamsInv, RecordedForCurrentTeam
  <2> QED
    BY <2>2, <2>3
<1>11. CompensationKnown' /\ MembershipsAgree'
  BY <1>1 DEF TeamsInv, CompensationKnown, MembershipsAgree, Known, Referable
<1> QED
  BY <1>8, <1>9, <1>10, <1>11 DEF TeamsInv

-----------------------------------------------------------------------------
(* The user operations.  Each sets the rows and the membership of its user *)
(* alone; what it leaves is agreed if that user's membership is.           *)
UserOp == [kind : {"create", "delete"}, user : Human, before : Membership, rows : RowStates,
           teamChanged : BOOLEAN]

LEMMA UserRows ==
    ASSUME TeamsInv, NEW u \in Human, NEW grant \in RowStates, NEW m \in Membership,
           rowsOf' = [rowsOf EXCEPT ![u] = grant],
           Memberships([member EXCEPT ![u] = m]),
           late' \subseteq Human, late \ {u} \subseteq late',
           Referable(m), m.found => grant # "absent" \/ u \in late',
           UNCHANGED <<teams, identity, clerk, round>>,
           keyOf' \in [Human -> Nat],
           userOp' = NoUserOp \/ userOp' \in UserOp
    PROVE  /\ TeamTypes' /\ ReadingsHeld' /\ RecordedForCurrentTeam' /\ MembershipsAgree'
           /\ member'[u] = m /\ rowsOf'[u] = grant
<1>1. [member EXCEPT ![u] = m] \in Reading
  BY DEF TeamsInv, TeamTypes, Reading
<1>2. /\ member' = [member EXCEPT ![u] = m] /\ member' \in Reading
      /\ window' \in [Readers -> [Human -> SUBSET Membership]]
      /\ \A r \in Readers, v \in Human : window[r][v] \subseteq window'[r][v]
  BY <1>1, WindowsGrow DEF TeamsInv
<1>3. rowsOf' \in [Human -> RowStates] /\ rowsOf'[u] = grant /\ member'[u] = m
  BY <1>2 DEF TeamsInv, TeamTypes, Reading
<1>4. TeamTypes'
  BY <1>2, <1>3 DEF TeamsInv, TeamTypes, UserOp
<1>5. RecordedForCurrentTeam' /\ ReadingsHeld'
  BY <1>2, RecordKept DEF ReadingsHeld
<1>6. \A v \in Human \ {u} : member'[v] = member[v] /\ rowsOf'[v] = rowsOf[v]
  BY <1>2 DEF TeamsInv, TeamTypes, Reading
<1>7. MembershipsAgree'
  BY <1>3, <1>6 DEF TeamsInv, MembershipsAgree, Referable, Known
<1> QED
  BY <1>3, <1>4, <1>5, <1>7

LEMMA Unassigned ==
    ASSUME TeamsInv, NEW u \in Human
    PROVE  /\ member[u] \in Membership /\ Referable(member[u])
           /\ member[u].found => rowsOf[u] # "absent" \/ u \in late
           /\ member = [member EXCEPT ![u] = member[u]]
           /\ rowsOf[u] \in RowStates
BY DEF TeamsInv, TeamTypes, Reading, MembershipsAgree, Known

LEMMA CreationStep ==
    ASSUME TeamsInv, NEW u \in Human, ApplyUserCreation(u)
    PROVE  TeamsInv'
<1>1. PICK t \in teams \cup {NoGroup} :
        /\ Memberships(IF t = NoGroup THEN member
                       ELSE [member EXCEPT ![u] = [found |-> TRUE, team |-> t,
                                                   version |-> member[u].version + 1]])
        /\ userOp' = [kind |-> "create", user |-> u, before |-> member[u], rows |-> rowsOf[u],
                      teamChanged |-> t # NoGroup]
  BY DEF ApplyUserCreation
<1> DEFINE m == IF t = NoGroup THEN member[u]
                ELSE [found |-> TRUE, team |-> t, version |-> member[u].version + 1]
<1>2. m \in Membership /\ Referable(m) /\ Memberships([member EXCEPT ![u] = m])
  <2>1. m \in Membership /\ Referable(m)
    BY <1>1, Unassigned DEF Membership, Team, Referable, TeamsInv, TeamTypes
  <2>2. CASE t = NoGroup
    BY <1>1, <2>1, <2>2, Unassigned
  <2>3. CASE t # NoGroup
    BY <1>1, <2>1, <2>3
  <2> QED
    BY <2>2, <2>3
<1>3. /\ UNCHANGED <<teams, identity, clerk, round, late>>
      /\ rowsOf' = [rowsOf EXCEPT ![u] = "active"]
      /\ keyOf' \in [Human -> Nat] /\ late \subseteq Human
  BY DEF ApplyUserCreation, userFrame, TeamsInv, TeamTypes
<1>4. userOp' \in UserOp
  BY <1>1, Unassigned DEF UserOp
<1> HIDE DEF m
<1>5. /\ TeamTypes' /\ ReadingsHeld' /\ RecordedForCurrentTeam' /\ MembershipsAgree'
      /\ member'[u] = m
  BY <1>2, <1>3, <1>4, UserRows DEF RowStates
<1>6. CompensationKnown'
  BY <1>1, <1>3, <1>5, Unassigned DEF CompensationKnown, m
<1> QED
  BY <1>5, <1>6 DEF TeamsInv

LEMMA UserOpKnown ==
    ASSUME TeamsInv, userOp.kind \in {"create", "delete"}
    PROVE  userOp \in UserOp
BY DEF TeamsInv, TeamTypes, UserOp, NoUserOp

LEMMA RestoreCreationStep ==
    ASSUME TeamsInv, RestoreUserCreation
    PROVE  TeamsInv'
<1> DEFINE u == userOp.user
           m == IF userOp.teamChanged THEN userOp.before ELSE member[u]
<1>1. /\ userOp.kind = "create" /\ userOp' = NoUserOp
      /\ rowsOf' = [rowsOf EXCEPT ![u] = userOp.rows]
      /\ UNCHANGED <<teams, identity, clerk, round, keyOf>>
      /\ late' = IF userOp.teamChanged /\ ~userOp.before.found THEN late \ {u} ELSE late
  BY DEF RestoreUserCreation, userFrame
<1>2. u \in Human /\ userOp.rows \in RowStates /\ userOp.before \in Membership
  BY <1>1, UserOpKnown DEF UserOp
<1>3. m \in Membership /\ Referable(m) /\ Memberships([member EXCEPT ![u] = m])
  BY <1>2, Unassigned DEF RestoreUserCreation
<1>4. m.found => userOp.rows # "absent" \/ u \in late'
  BY <1>1, <1>2 DEF TeamsInv, CompensationKnown
<1>5. late' \subseteq Human /\ late \ {u} \subseteq late' /\ keyOf' \in [Human -> Nat]
  BY <1>1 DEF TeamsInv, TeamTypes
<1> HIDE DEF m, u
<1>6. TeamTypes' /\ ReadingsHeld' /\ RecordedForCurrentTeam' /\ MembershipsAgree'
  BY <1>1, <1>2, <1>3, <1>4, <1>5, UserRows
<1>7. CompensationKnown'
  BY <1>1 DEF CompensationKnown, NoUserOp
<1> QED
  BY <1>6, <1>7 DEF TeamsInv

LEMMA DeletionStep ==
    ASSUME TeamsInv, NEW u \in Human, ApplyUserDeletion(u)
    PROVE  TeamsInv'
<1>1. /\ UNCHANGED <<teams, identity, clerk, round, keyOf>>
      /\ rowsOf' = [rowsOf EXCEPT ![u] = "absent"] /\ late' = late \ {u}
      /\ Memberships([member EXCEPT ![u] = NotMember])
      /\ userOp' = [kind |-> "delete", user |-> u, before |-> member[u], rows |-> rowsOf[u],
                    teamChanged |-> TRUE]
      /\ rowsOf[u] # "absent"
  BY DEF ApplyUserDeletion, userFrame, Known
<1>2. NotMember \in Membership /\ Referable(NotMember) /\ ~NotMember.found
  BY InitialMembership DEF NotMember, Referable
<1>3. userOp' \in UserOp
  BY <1>1, Unassigned DEF UserOp
<1>4. late' \subseteq Human /\ late \ {u} \subseteq late' /\ keyOf' \in [Human -> Nat]
  BY <1>1 DEF TeamsInv, TeamTypes
<1>5. TeamTypes' /\ ReadingsHeld' /\ RecordedForCurrentTeam' /\ MembershipsAgree'
  BY <1>1, <1>2, <1>3, <1>4, UserRows DEF RowStates
<1>6. CompensationKnown'
  BY <1>1 DEF CompensationKnown
<1> QED
  BY <1>5, <1>6 DEF TeamsInv

LEMMA RestoreDeletionStep ==
    ASSUME TeamsInv, RestoreUserDeletion
    PROVE  TeamsInv'
<1> DEFINE u == userOp.user  m == userOp.before
<1>1. /\ userOp.kind = "delete" /\ userOp' = NoUserOp /\ Referable(m)
      /\ rowsOf' = [rowsOf EXCEPT ![u] = userOp.rows]
      /\ UNCHANGED <<teams, identity, clerk, round, keyOf>>
      /\ late' = late \ {u} /\ Memberships([member EXCEPT ![u] = m])
  BY DEF RestoreUserDeletion, userFrame
<1>2. u \in Human /\ userOp.rows \in RowStates /\ m \in Membership
  BY <1>1, UserOpKnown DEF UserOp
<1>3. userOp.rows # "absent"
  BY <1>1 DEF TeamsInv, CompensationKnown
<1>4. late' \subseteq Human /\ late \ {u} \subseteq late' /\ keyOf' \in [Human -> Nat]
  BY <1>1 DEF TeamsInv, TeamTypes
<1> HIDE DEF m, u
<1>5. TeamTypes' /\ ReadingsHeld' /\ RecordedForCurrentTeam' /\ MembershipsAgree'
  BY <1>1, <1>2, <1>3, <1>4, UserRows
<1>6. CompensationKnown'
  BY <1>1 DEF CompensationKnown, NoUserOp
<1> QED
  BY <1>5, <1>6 DEF TeamsInv

(* A revocation keeps the rows; an operation that ends keeps everything.   *)
LEMMA OtherUserSteps ==
    ASSUME TeamsInv, UserOpEnds \/ \E u \in Human : ApplyUserRevocation(u)
    PROVE  TeamsInv'
<1>1. /\ UNCHANGED <<teams, identity, clerk, round, member, window, late, keyOf>>
      /\ rowsOf' \in [Human -> RowStates] /\ Known' = Known
      /\ userOp' \in {userOp, NoUserOp}
  BY DEF UserOpEnds, ApplyUserRevocation, userFrame, Known, RowStates, TeamsInv, TeamTypes
<1>2. TeamTypes'
  BY <1>1 DEF TeamsInv, TeamTypes
<1>3. ReadingsHeld' /\ RecordedForCurrentTeam' /\ MembershipsAgree'
  BY <1>1 DEF TeamsInv, ReadingsHeld, RecordedForCurrentTeam, MembershipsAgree, Referable
<1>4. CompensationKnown'
  BY <1>1 DEF TeamsInv, CompensationKnown, NoUserOp
<1> QED
  BY <1>2, <1>3, <1>4 DEF TeamsInv

-----------------------------------------------------------------------------
(* The Collector's round. *)
RoundState == [step : {"idle", "keys", "identified", "read", "drain"}, users : SUBSET Human,
               keys : SUBSET (Human \X Nat), read : Reading \cup {<<>>}]

LEMMA RoundSteps ==
    ASSUME TeamsInv, RoundStep
    PROVE  TeamsInv'
<1>1. UNCHANGED <<teams, rowsOf, keyOf, member, clerk, userOp, late>>
  BY DEF RoundStep, ReadKeys, SyncIdentities, ReadUserTeams, SyncRound, RoundEnds, roundFrame
<1>2. CompensationKnown' /\ MembershipsAgree'
  BY <1>1 DEF TeamsInv, CompensationKnown, MembershipsAgree, Known, Referable
<1>3. "collector" \in Readers /\ Clerk \subseteq Readers /\ "collector" \notin Clerk
  BY TeamsAssumption DEF Readers
<1>4. round \in RoundState /\ NoRound \in RoundState
  BY DEF TeamsInv, TeamTypes, RoundState, NoRound
<1>5. SUFFICES /\ identity' \in [Human -> [KeyNumbers -> Identity]]
               /\ window' \in [Readers -> [Human -> SUBSET Membership]]
               /\ round' \in RoundState
               /\ ReadingsHeld' /\ RecordedForCurrentTeam'
  BY <1>1, <1>2 DEF TeamsInv, TeamTypes, RoundState
<1>6. CASE ReadKeys \/ RoundEnds
  <2>1. /\ UNCHANGED <<identity, window>> /\ round'.step \in {"idle", "keys"}
        /\ round' \in RoundState
    <3>1. CASE ReadKeys
      <4>1. {<<u, keyOf[u]>> : u \in {v \in Human : rowsOf[v] = "active"}}
                \in SUBSET (Human \X Nat)
        BY DEF TeamsInv, TeamTypes
      <4>2. Known \in SUBSET Human
        BY DEF Known
      <4> QED
        BY <3>1, <4>1, <4>2 DEF ReadKeys, RoundState, NoRound
    <3>2. CASE RoundEnds
      BY <1>4, <3>2 DEF RoundEnds, NoRound
    <3> QED
      BY <1>6, <3>1, <3>2
  <2>2. ReadingsHeld' /\ RecordedForCurrentTeam'
    BY <1>1, <2>1 DEF TeamsInv, ReadingsHeld, RecordedForCurrentTeam
  <2> QED
    BY <2>1, <2>2 DEF TeamsInv, TeamTypes
<1>7. CASE SyncIdentities
  <2>1. /\ window' = window /\ round' = [round EXCEPT !.step = "identified"]
        /\ round' \in RoundState /\ round'.step = "identified"
    BY <1>4, <1>7 DEF SyncIdentities, RoundState
  <2>2. identity' \in [Human -> [KeyNumbers -> Identity]]
    <3>1. \A i \in Identity : [i EXCEPT !.known = TRUE] \in Identity
      BY DEF Identity
    <3> QED
      BY <1>7, <3>1 DEF SyncIdentities, TeamsInv, TeamTypes
  <2>3. ReadingsHeld' /\ RecordedForCurrentTeam'
    BY <1>1, <2>1 DEF TeamsInv, ReadingsHeld, RecordedForCurrentTeam
  <2> QED
    BY <2>1, <2>2, <2>3 DEF TeamsInv, TeamTypes
<1>8. CASE ReadUserTeams
  <2>1. /\ round' = [round EXCEPT !.step = "read", !.read = member]
        /\ window' = WindowFrom("collector") /\ identity' = identity
    BY <1>8 DEF ReadUserTeams
  <2>2. /\ round' \in RoundState /\ round'.step = "read" /\ round'.read = member
        /\ member \in Reading
    BY <1>4, <2>1 DEF RoundState, TeamsInv, TeamTypes
  <2>3. /\ window' \in [Readers -> [Human -> SUBSET Membership]]
        /\ \A u \in Human : member[u] \in window'["collector"][u]
        /\ \A q \in Readers \ {"collector"}, u \in Human : window'[q][u] = window[q][u]
    BY <1>3, <2>1, WindowOpens DEF TeamsInv
  <2>4. ReadingsHeld' /\ RecordedForCurrentTeam'
    BY <1>1, <1>3, <2>2, <2>3 DEF TeamsInv, ReadingsHeld, RecordedForCurrentTeam
  <2> QED
    BY <2>1, <2>2, <2>3, <2>4 DEF TeamsInv, TeamTypes
<1>9. CASE SyncRound
  <2>1. /\ round.step = "read" /\ round' = [round EXCEPT !.step = "drain"]
        /\ window' = window /\ SyncUserTeams(round.users, round.read)
    BY <1>9 DEF SyncRound
  <2>2. /\ round' \in RoundState /\ round'.step = "drain" /\ round'.users = round.users
        /\ round.users \in SUBSET Human /\ round.read \in Reading
        /\ \A u \in Human : round.read[u] \in window["collector"][u]
    BY <1>4, <2>1 DEF RoundState, TeamsInv, ReadingsHeld
  <2>3. /\ identity' \in [Human -> [KeyNumbers -> Identity]]
        /\ \A u \in Human, n \in KeyNumbers : identity'[u][n] =
               IF u \in round.users /\ identity[u][n].known THEN Identified(round.read[u])
                                                            ELSE identity[u][n]
    BY <2>1, <2>2, Copied DEF TeamsInv
  <2>4. ReadingsHeld'
    BY <1>1, <2>1, <2>2 DEF TeamsInv, ReadingsHeld
  <2>5. RecordedForCurrentTeam'
    <3> SUFFICES ASSUME NEW u \in round.users, NEW n \in KeyNumbers, identity'[u][n].known
                 PROVE  \E m \in window'["collector"][u] : identity'[u][n] = Identified(m)
      BY <2>2 DEF RecordedForCurrentTeam
    <3>1. identity[u][n].known
      BY <2>2, <2>3
    <3> QED
      BY <2>1, <2>2, <2>3, <3>1
  <2> QED
    BY <2>1, <2>2, <2>3, <2>4, <2>5 DEF TeamsInv, TeamTypes
<1> QED
  BY <1>6, <1>7, <1>8, <1>9 DEF RoundStep

-----------------------------------------------------------------------------
LEMMA TeamsInductive == TeamsInv /\ [TeamsNext]_teamVars => TeamsInv'
<1> SUFFICES ASSUME TeamsInv, [TeamsNext]_teamVars PROVE TeamsInv'
  OBVIOUS
<1>1. CASE CreateTeam \/ DeleteTeam
  BY <1>1, CatalogStep
<1>2. CASE UserStep
  BY <1>2, CreationStep, RestoreCreationStep, DeletionStep, RestoreDeletionStep,
     OtherUserSteps DEF UserStep
<1>3. CASE RoundStep
  BY <1>3, RoundSteps
<1>4. CASE \E c \in Clerk : ClerkStep(c)
  BY <1>4, LookUpStep, SetStep, ReadBackStep, SyncAssignedStep DEF ClerkStep
<1>5. CASE UNCHANGED teamVars
  BY <1>5 DEF teamVars, TeamsInv, TeamTypes, ReadingsHeld, CompensationKnown,
     RecordedForCurrentTeam, MembershipsAgree, Known, Referable
<1> QED
  BY <1>1, <1>2, <1>3, <1>4, <1>5 DEF TeamsNext

(* TeamsAgree.  What the Collector records while it drains is a membership *)
(* that held since it, or a request that copied during the round, has      *)
(* read; memberships name existing teams and users, but for those assigned *)
(* during a creation or deletion.                                          *)
THEOREM TeamsAgreeAlways == TeamsSpec => []TeamsAgree
<1>1. TeamsInv => TeamsAgree
  BY DEF TeamsInv, TeamsAgree
<1> QED
  BY <1>1, TeamsBegin, TeamsInductive, PTL DEF TeamsSpec

-----------------------------------------------------------------------------
(* The observation of accounts.  An observation is as old as its fetch, so    *)
(* the invariant relates the second it was made to each blocker's first one. *)

Overlay == [Site -> {"", "quota_exhausted", "transient_cooldown", "credential_unavailable",
                     "runtime_unknown", "rate_limited", "degraded"}]
Flight == [services : SUBSET Site, started : Nat, seen : Nat, answered : BOOLEAN,
           overlay : Overlay]
Snapshot == [services : SUBSET Site, expires : Nat, seen : Nat, answered : BOOLEAN,
             overlay : Overlay]

Shown(overlay) == Selectable(LiveState("available", TRUE, TRUE, TRUE, overlay))

StatusTypes ==
    /\ second \in Nat /\ second > 0
    /\ native \in [Site -> Native]
    /\ blockedSince \in [Site -> Nat]
    /\ up \subseteq Site
    /\ cache \in Snapshot /\ list \in Snapshot
    /\ flights \subseteq Flight
    /\ change.step # "none" =>
           /\ change.target \in Site /\ change.target \in change.services
           /\ change.at \in Nat

BlockersKnown ==
    \A s \in Site : /\ blockedSince[s] <= second
                    /\ native[s] \in Blocking <=> blockedSince[s] # 0

(* An account that an observation shows as selectable has not reported a   *)
(* blocker since before the observation.                                   *)
SeenFree(o) ==
    o.answered => \A s \in o.services : Shown(o.overlay[s]) =>
                      blockedSince[s] = 0 \/ o.seen <= blockedSince[s]

ObservationsKnown ==
    /\ \A f \in flights :
           /\ f.started <= second /\ second <= f.started + ProbeTime
           /\ f.seen # 0 => f.started <= f.seen /\ f.seen <= second /\ SeenFree(f)
    /\ cache.seen <= second
    /\ cache.expires <= cache.seen + ProbeTime + CacheTTL
    /\ SeenFree(cache)
    /\ change.step = "observed" => change.at <= second

StatusInv == /\ StatusTypes /\ BlockersKnown /\ ObservationsKnown
             /\ RouteChoiceCurrent /\ ListRecent

-----------------------------------------------------------------------------
LEMMA TimesAre ==
    CacheTTL \in Nat /\ CacheTTL > 0 /\ ProbeTime \in Nat /\ Reports \subseteq Native
BY AccountStatusAssumption DEF Native

(* What a CPA reports as a blocker is shown as one, whatever the log says. *)
LEMMA BlockersShown ==
    \A report \in Native, activity \in Activity :
        /\ PresentRuntime(report, activity) \in
               {"", "quota_exhausted", "transient_cooldown", "credential_unavailable",
                "runtime_unknown", "rate_limited", "degraded"}
        /\ report \in Blocking => ~Shown(PresentRuntime(report, activity))
<1> SUFFICES ASSUME NEW report \in Native, NEW activity \in Activity
             PROVE  /\ PresentRuntime(report, activity) \in
                           {"", "quota_exhausted", "transient_cooldown", "credential_unavailable",
                            "runtime_unknown", "rate_limited", "degraded"}
                    /\ report \in Blocking => ~Shown(PresentRuntime(report, activity))
  OBVIOUS
<1>1. RuntimeState(report, activity) \in
          {"unavailable", "rate_limited", "degraded", "healthy", "unknown"}
  BY DEF RuntimeState
<1>2. report \in Blocking => RuntimeState(report, activity) = "unavailable"
  BY DEF RuntimeState
<1>3. RuntimeState(report, activity) = "unavailable" =>
          /\ PresentRuntime(report, activity) \in
                 {"quota_exhausted", "transient_cooldown", "credential_unavailable"}
          /\ report \in Blocking => PresentRuntime(report, activity) # "transient_cooldown"
  BY DEF PresentRuntime, Blocking
<1>4. \A overlay \in {"quota_exhausted", "credential_unavailable"} : ~Shown(overlay)
  BY DEF Shown, LiveState, Selectable
<1>5. RuntimeState(report, activity) # "unavailable" =>
          PresentRuntime(report, activity) \in
              {"", "runtime_unknown", "rate_limited", "degraded"}
  BY <1>1 DEF PresentRuntime
<1> QED
  BY <1>2, <1>3, <1>4, <1>5

LEMMA BlockersAlwaysWin == BlockersWin
<1> SUFFICES ASSUME NEW report \in Native, NEW activity \in Activity, NEW stored \in Stored
             PROVE  LET overlay == PresentRuntime(report, activity)
                        state(enabled, running, oauth) ==
                            LiveState(stored, enabled, running, oauth, overlay)
                    IN  /\ report \in Blocking => ~Selectable(state(TRUE, TRUE, TRUE))
                        /\ stored \in {"quota_exhausted", "upstream_disallowed"}
                               => ~Selectable(state(TRUE, TRUE, TRUE))
                        /\ \A e, r, o \in BOOLEAN : Selectable(state(e, r, o)) => e /\ r /\ o
  BY DEF BlockersWin
<1> DEFINE overlay == PresentRuntime(report, activity)
<1>1. report \in Blocking => ~Selectable(LiveState(stored, TRUE, TRUE, TRUE, overlay))
  <2>1. report \in Blocking => overlay # "" /\ ~Selectable(overlay)
    BY BlockersShown DEF Shown, LiveState, Selectable
  <2> QED
    BY <2>1 DEF LiveState, Selectable
<1>2. stored \in {"quota_exhausted", "upstream_disallowed"}
          => ~Selectable(LiveState(stored, TRUE, TRUE, TRUE, overlay))
  BY DEF LiveState, Selectable
<1>3. \A e, r, o \in BOOLEAN : Selectable(LiveState(stored, e, r, o, overlay)) => e /\ r /\ o
  BY DEF LiveState, Selectable
<1> QED
  BY <1>1, <1>2, <1>3

LEMMA StatusBegins == StatusInit => StatusInv
<1> SUFFICES ASSUME StatusInit PROVE StatusInv
  OBVIOUS
<1> USE DEF StatusInit
<1>1. NoSnapshot \in Snapshot /\ NoSnapshot.seen = 0 /\ NoSnapshot.expires = 0
      /\ ~NoSnapshot.answered
  BY DEF NoSnapshot, Snapshot, Overlay
<1>2. NoChoice.step = "none"
  BY DEF NoChoice
<1>3. StatusTypes
  BY <1>1, <1>2 DEF StatusTypes, Native
<1>4. BlockersKnown
  BY DEF BlockersKnown, Blocking
<1>5. ObservationsKnown
  BY <1>1, <1>2, TimesAre DEF ObservationsKnown, SeenFree
<1>6. RouteChoiceCurrent /\ ListRecent
  BY <1>1, <1>2 DEF RouteChoiceCurrent, ListRecent
<1> QED
  BY <1>3, <1>4, <1>5, <1>6 DEF StatusInv

-----------------------------------------------------------------------------
(* The clock and the world. *)
LEMMA SecondStep ==
    ASSUME StatusInv, SecondPasses
    PROVE  StatusInv'
<1>1. /\ UNCHANGED <<native, blockedSince, up, usable, cache, flights, change, list>>
      /\ second' = second + 1 /\ \A f \in flights : second < f.started + ProbeTime
  BY DEF SecondPasses
<1>2. StatusTypes'
  BY <1>1 DEF StatusInv, StatusTypes
<1>3. BlockersKnown'
  BY <1>1 DEF StatusInv, StatusTypes, BlockersKnown
<1>4. ObservationsKnown'
  <2>1. ASSUME NEW f \in flights
        PROVE  /\ f.started <= second' /\ second' <= f.started + ProbeTime
               /\ f.seen # 0 => f.started <= f.seen /\ f.seen <= second' /\ SeenFree(f)
    <3>1. f.started \in Nat /\ f.seen \in Nat /\ second \in Nat
      BY DEF StatusInv, StatusTypes, Flight
    <3> QED
      BY <1>1, <3>1, TimesAre DEF StatusInv, ObservationsKnown
  <2>2. cache.seen \in Nat /\ second \in Nat /\ (change.step = "observed" => change.at \in Nat)
    BY DEF StatusInv, StatusTypes, Snapshot
  <2> QED
    BY <1>1, <2>1, <2>2 DEF StatusInv, ObservationsKnown, SeenFree
<1>5. RouteChoiceCurrent' /\ ListRecent'
  BY <1>1 DEF StatusInv, RouteChoiceCurrent, ListRecent
<1> QED
  BY <1>2, <1>3, <1>4, <1>5 DEF StatusInv

LEMMA ReportStep ==
    ASSUME StatusInv, NEW s \in Site, ReportChanges(s)
    PROVE  StatusInv'
<1>1. UNCHANGED <<second, up, usable, cache, flights, change, list>>
  BY DEF ReportChanges
<1>2. PICK report \in Reports \ {native[s]} :
        /\ native' = [native EXCEPT ![s] = report]
        /\ blockedSince' = [blockedSince EXCEPT ![s] =
                               IF report \notin Blocking THEN 0
                               ELSE IF @ = 0 THEN second ELSE @]
  BY DEF ReportChanges
<1>3. second \in Nat /\ second > 0 /\ report \in Native /\ blockedSince \in [Site -> Nat]
      /\ native \in [Site -> Native]
  BY TimesAre DEF StatusInv, StatusTypes
<1>4. /\ native' \in [Site -> Native] /\ blockedSince' \in [Site -> Nat]
      /\ native'[s] = report
      /\ blockedSince'[s] = IF report \notin Blocking THEN 0
                            ELSE IF blockedSince[s] = 0 THEN second ELSE blockedSince[s]
      /\ \A r \in Site \ {s} : native'[r] = native[r] /\ blockedSince'[r] = blockedSince[r]
  BY <1>2, <1>3
<1>5. StatusTypes'
  BY <1>1, <1>4 DEF StatusInv, StatusTypes
<1>6. BlockersKnown'
  BY <1>1, <1>3, <1>4 DEF StatusInv, BlockersKnown
<1>7. \A r \in Site : \/ blockedSince'[r] = blockedSince[r]
                      \/ blockedSince'[r] = 0
                      \/ blockedSince'[r] = second
  BY <1>4
<1>8. ASSUME NEW o, o.services \subseteq Site, o.seen \in Nat, o.seen <= second, SeenFree(o)
      PROVE  SeenFree(o)'
  BY <1>3, <1>7, <1>8 DEF SeenFree
<1>9. ObservationsKnown'
  <2>1. ASSUME NEW f \in flights, f.seen # 0 PROVE SeenFree(f)'
    <3>1. f.services \subseteq Site /\ f.seen \in Nat
      BY DEF StatusInv, StatusTypes, Flight
    <3> QED
      BY <1>8, <2>1, <3>1 DEF StatusInv, ObservationsKnown
  <2>2. SeenFree(cache)'
    <3>1. cache.services \subseteq Site /\ cache.seen \in Nat
      BY DEF StatusInv, StatusTypes, Snapshot
    <3>2. SeenFree(cache) /\ cache.seen <= second
      BY DEF StatusInv, ObservationsKnown
    <3> QED
      BY <1>1, <1>3, <1>7, <3>1, <3>2 DEF SeenFree
  <2> QED
    BY <1>1, <2>1, <2>2 DEF StatusInv, ObservationsKnown
<1>10. RouteChoiceCurrent'
  <2> SUFFICES ASSUME change.step = "observed", change.answered, Shown(change.overlay),
                      blockedSince'[change.target] # 0
               PROVE  change.at < blockedSince'[change.target] + CacheTTL + ProbeTime
    BY <1>1 DEF RouteChoiceCurrent, Shown
  <2>1. change.target \in Site /\ change.at \in Nat /\ change.at <= second
    BY DEF StatusInv, StatusTypes, ObservationsKnown
  <2>2. CASE blockedSince'[change.target] = second
    BY <1>3, <2>1, <2>2, TimesAre
  <2>3. CASE blockedSince'[change.target] = blockedSince[change.target]
    BY <2>3 DEF StatusInv, RouteChoiceCurrent, Shown
  <2> QED
    BY <1>7, <2>1, <2>2, <2>3
<1>11. ListRecent'
  BY <1>1 DEF StatusInv, ListRecent
<1> QED
  BY <1>5, <1>6, <1>9, <1>10, <1>11 DEF StatusInv

LEMMA QuietStep ==
    ASSUME StatusInv,
           UNCHANGED <<second, native, blockedSince, cache, flights>>,
           up' \subseteq Site,
           change' \in {change, NoChoice}, list' \in {list, NoSnapshot}
    PROVE  StatusInv'
<1>1. NoSnapshot \in Snapshot /\ NoSnapshot.seen = 0 /\ NoChoice.step = "none"
  BY DEF NoSnapshot, Snapshot, Overlay, NoChoice
<1>2. StatusTypes'
  BY <1>1 DEF StatusInv, StatusTypes
<1>3. BlockersKnown' /\ ObservationsKnown'
  BY <1>1 DEF StatusInv, BlockersKnown, ObservationsKnown, SeenFree
<1>4. RouteChoiceCurrent' /\ ListRecent'
  BY <1>1 DEF StatusInv, RouteChoiceCurrent, ListRecent
<1> QED
  BY <1>2, <1>3, <1>4 DEF StatusInv

-----------------------------------------------------------------------------
(* The fetches. *)
LEMMA JoinedFlights ==
    ASSUME StatusInv, NEW services \in SUBSET Site
    PROVE  /\ Joined(services) \subseteq Flight
           /\ \A f \in Joined(services) :
                  /\ f.started <= second /\ second <= f.started + ProbeTime
                  /\ f.seen # 0 => f.started <= f.seen /\ f.seen <= second /\ SeenFree(f)
<1> DEFINE f == [services |-> services, started |-> second, seen |-> 0,
                 answered |-> FALSE, overlay |-> [s \in Site |-> ""]]
<1>1. f \in Flight /\ f.started = second /\ f.seen = 0
  BY DEF Flight, Overlay, StatusInv, StatusTypes
<1> HIDE DEF f
<1>2. Joined(services) \subseteq flights \cup {f}
  BY DEF Joined, f
<1>3. second \in Nat /\ flights \subseteq Flight
  BY DEF StatusInv, StatusTypes
<1> QED
  BY <1>1, <1>2, <1>3, TimesAre DEF StatusInv, ObservationsKnown

LEMMA ReadNativeStep ==
    ASSUME StatusInv, NEW f \in flights, ReadNative(f)
    PROVE  StatusInv'
<1>1. UNCHANGED <<second, native, blockedSince, up, usable, cache, change, list>>
  BY DEF ReadNative
<1>2. PICK answered \in BOOLEAN, limited \in Limited :
        flights' = (flights \ {f}) \cup
            {[f EXCEPT !.seen = second, !.answered = answered,
                       !.overlay = [s \in Site |-> IF s \in f.services
                           THEN PresentRuntime(IF answered THEN native[s] ELSE "silent",
                                               [errors |-> limited, limited |-> limited])
                           ELSE ""]]}
  BY DEF ReadNative
<1> DEFINE activity == [errors |-> limited, limited |-> limited]
           overlay == [s \in Site |-> IF s \in f.services
                           THEN PresentRuntime(IF answered THEN native[s] ELSE "silent", activity)
                           ELSE ""]
           g == [f EXCEPT !.seen = second, !.answered = answered, !.overlay = overlay]
<1>3. f \in Flight /\ second \in Nat /\ second > 0 /\ native \in [Site -> Native]
      /\ f.services \subseteq Site /\ f.started \in Nat
  BY DEF StatusInv, StatusTypes, Flight
<1>4. activity \in Activity
  BY AccountStatusAssumption DEF Activity
<1>5. \A s \in Site : (IF answered THEN native[s] ELSE "silent") \in Native
  BY <1>3 DEF Native
<1>6. overlay \in Overlay
  BY <1>4, <1>5, BlockersShown DEF Overlay
<1>7. answered => \A s \in f.services : Shown(overlay[s]) => blockedSince[s] = 0
  <2> SUFFICES ASSUME answered, NEW s \in f.services, Shown(overlay[s])
               PROVE  native[s] \notin Blocking
    BY <1>3 DEF StatusInv, BlockersKnown
  <2>1. overlay[s] = PresentRuntime(native[s], activity)
    BY <1>3
  <2> QED
    BY <1>3, <1>4, <2>1, BlockersShown
<1> HIDE DEF overlay, activity
<1>8. /\ g \in Flight /\ g.services = f.services /\ g.started = f.started /\ g.seen = second
      /\ g.overlay = overlay /\ g.answered = answered
  BY <1>3, <1>6 DEF Flight
<1>9. flights' = (flights \ {f}) \cup {g}
  BY <1>2 DEF overlay, activity
<1> HIDE DEF g
<1>10. StatusTypes'
  BY <1>1, <1>8, <1>9 DEF StatusInv, StatusTypes
<1>11. BlockersKnown'
  BY <1>1 DEF StatusInv, BlockersKnown
<1>12. SeenFree(g)
  BY <1>7, <1>8 DEF SeenFree
<1>13. ASSUME NEW h \in flights'
       PROVE  /\ h.started <= second /\ second <= h.started + ProbeTime
              /\ h.seen # 0 => h.started <= h.seen /\ h.seen <= second /\ SeenFree(h)
  <2>1. f.started <= second /\ second <= f.started + ProbeTime
    BY DEF StatusInv, ObservationsKnown
  <2>2. CASE h = g
    BY <1>3, <1>8, <1>12, <2>1, <2>2
  <2>3. CASE h # g
    BY <1>9, <2>3 DEF StatusInv, ObservationsKnown
  <2> QED
    BY <2>2, <2>3
<1>14. ObservationsKnown'
  BY <1>1, <1>13 DEF StatusInv, ObservationsKnown, SeenFree
<1>15. RouteChoiceCurrent' /\ ListRecent'
  BY <1>1 DEF StatusInv, RouteChoiceCurrent, ListRecent
<1> QED
  BY <1>10, <1>11, <1>14, <1>15 DEF StatusInv

LEMMA RefreshStep ==
    ASSUME StatusInv, NEW f \in flights, RefreshEnds(f)
    PROVE  StatusInv'
<1>1. /\ UNCHANGED <<second, native, blockedSince, up, usable>>
      /\ f.seen # 0 /\ flights' = flights \ {f}
      /\ cache' = [services |-> f.services, expires |-> second + CacheTTL,
                   seen |-> f.seen, answered |-> f.answered, overlay |-> f.overlay]
      /\ change' = IF change.step = "waiting" /\ change.services = f.services
                   THEN [change EXCEPT !.step = "observed", !.at = second,
                                       !.answered = f.answered,
                                       !.overlay = f.overlay[change.target]] ELSE change
      /\ list' = IF list.services = f.services /\ list.expires = 0
                 THEN [cache' EXCEPT !.expires = second] ELSE list
  BY DEF RefreshEnds
<1>2. f \in Flight /\ f.seen \in Nat /\ f.started \in Nat /\ f.services \subseteq Site
      /\ second \in Nat /\ second > 0
  BY DEF StatusInv, StatusTypes, Flight
<1>3. f.started <= f.seen /\ f.seen <= second /\ second <= f.started + ProbeTime /\ SeenFree(f)
  BY <1>1 DEF StatusInv, ObservationsKnown
<1>4. second <= f.seen + ProbeTime
  BY <1>2, <1>3, TimesAre
<1>5. /\ cache' \in Snapshot /\ cache'.seen = f.seen /\ cache'.expires = second + CacheTTL
      /\ cache'.services = f.services /\ cache'.answered = f.answered
      /\ cache'.overlay = f.overlay
  BY <1>1, <1>2, TimesAre DEF Flight, Snapshot
<1>6. [cache' EXCEPT !.expires = second] \in Snapshot
      /\ [cache' EXCEPT !.expires = second].seen = f.seen
      /\ [cache' EXCEPT !.expires = second].expires = second
  BY <1>2, <1>5 DEF Snapshot
<1>7. \/ change' = change
      \/ /\ change.step = "waiting" /\ change.services = f.services
         /\ change'.step = "observed" /\ change'.target = change.target
         /\ change'.services = change.services /\ change'.at = second
         /\ change'.answered = f.answered /\ change'.overlay = f.overlay[change.target]
  BY <1>1
<1>8. StatusTypes'
  BY <1>1, <1>2, <1>5, <1>6, <1>7 DEF StatusInv, StatusTypes
<1>9. BlockersKnown'
  BY <1>1 DEF StatusInv, BlockersKnown
<1>10. SeenFree(cache)'
  BY <1>1, <1>3, <1>5 DEF SeenFree
<1>11. ObservationsKnown'
  BY <1>1, <1>2, <1>3, <1>4, <1>5, <1>7, <1>10, TimesAre DEF StatusInv, ObservationsKnown, SeenFree
<1>12. RouteChoiceCurrent'
  <2>1. CASE change' = change
    BY <1>1, <2>1 DEF StatusInv, RouteChoiceCurrent
  <2>2. CASE change' # change
    <3> SUFFICES ASSUME f.answered, Shown(f.overlay[change.target]),
                        blockedSince[change.target] # 0
                 PROVE  second < blockedSince[change.target] + CacheTTL + ProbeTime
      BY <1>1, <1>7, <2>2 DEF RouteChoiceCurrent, Shown
    <3>1. change.target \in f.services /\ change.target \in Site
      BY <1>7, <2>2 DEF StatusInv, StatusTypes
    <3>2. f.seen <= blockedSince[change.target] /\ blockedSince[change.target] \in Nat
      BY <1>3, <3>1 DEF SeenFree, StatusInv, StatusTypes
    <3> QED
      BY <1>2, <1>4, <3>2, TimesAre
  <2> QED
    BY <2>1, <2>2
<1>13. ListRecent'
  <2>1. CASE list' = list
    BY <2>1 DEF StatusInv, ListRecent
  <2>2. CASE list' # list
    BY <1>1, <1>2, <1>4, <1>6, <2>2, TimesAre DEF ListRecent
  <2> QED
    BY <2>1, <2>2
<1> QED
  BY <1>8, <1>9, <1>11, <1>12, <1>13 DEF StatusInv

-----------------------------------------------------------------------------
(* The requests. *)
LEMMA ChangeRouteStep ==
    ASSUME StatusInv, NEW s \in Site, ChangeRoute(s)
    PROVE  StatusInv'
<1>1. /\ UNCHANGED <<second, native, blockedSince, up, usable, cache, list>> /\ s \in up
  BY DEF ChangeRoute
<1>2. /\ up \in SUBSET Site /\ second \in Nat /\ cache \in Snapshot /\ cache.seen \in Nat
      /\ cache.expires \in Nat /\ blockedSince[s] \in Nat
  BY DEF StatusInv, StatusTypes, Snapshot
<1>3. /\ flights' \subseteq Flight
      /\ \A f \in flights' :
             /\ f.started <= second /\ second <= f.started + ProbeTime
             /\ f.seen # 0 => f.started <= f.seen /\ f.seen <= second /\ SeenFree(f)
  <2>1. flights' \in {flights, Joined(up)}
    BY DEF ChangeRoute
  <2> QED
    BY <1>2, <2>1, JoinedFlights DEF StatusInv, StatusTypes, ObservationsKnown
<1>4. \/ /\ Unexpired(up)
         /\ change' = [step |-> "observed", target |-> s, services |-> up,
                       at |-> second, answered |-> cache.answered, overlay |-> cache.overlay[s]]
      \/ /\ change'.step = "waiting" /\ change'.target = s /\ change'.services = up
         /\ change'.at = 0
  <2>1. CASE ~Unexpired(up)
    <3>1. change' = [NoChoice EXCEPT !.step = "waiting", !.target = s, !.services = up]
      BY <2>1 DEF ChangeRoute
    <3> QED
      BY <3>1 DEF NoChoice
  <2> QED
    BY <2>1 DEF ChangeRoute
<1>5. StatusTypes'
  BY <1>1, <1>2, <1>3, <1>4 DEF StatusInv, StatusTypes
<1>6. BlockersKnown'
  BY <1>1 DEF StatusInv, BlockersKnown
<1>7. ObservationsKnown'
  BY <1>1, <1>2, <1>3, <1>4 DEF StatusInv, ObservationsKnown, SeenFree
<1>8. RouteChoiceCurrent'
  <2> SUFFICES ASSUME change'.step = "observed", change'.answered, Shown(change'.overlay),
                      blockedSince[change'.target] # 0
               PROVE  change'.at < blockedSince[change'.target] + CacheTTL + ProbeTime
    BY <1>1 DEF RouteChoiceCurrent, Shown
  <2>1. /\ Unexpired(up) /\ change'.target = s /\ change'.at = second
        /\ cache.answered /\ Shown(cache.overlay[s])
    BY <1>4
  <2>2. cache.services = up /\ second < cache.expires
    BY <2>1 DEF Unexpired
  <2>3. cache.seen <= blockedSince[s]
    BY <1>1, <2>1, <2>2 DEF StatusInv, ObservationsKnown, SeenFree
  <2>4. cache.expires <= cache.seen + ProbeTime + CacheTTL
    BY DEF StatusInv, ObservationsKnown
  <2> QED
    BY <1>2, <2>1, <2>2, <2>3, <2>4, TimesAre
<1>9. ListRecent'
  BY <1>1 DEF StatusInv, ListRecent
<1> QED
  BY <1>5, <1>6, <1>7, <1>8, <1>9 DEF StatusInv

LEMMA ReadAccountsStep ==
    ASSUME StatusInv, ReadAccounts
    PROVE  StatusInv'
<1>1. UNCHANGED <<second, native, blockedSince, up, usable, cache, change>>
  BY DEF ReadAccounts
<1>2. /\ up \in SUBSET Site /\ second \in Nat /\ cache \in Snapshot /\ cache.seen \in Nat
      /\ cache.expires \in Nat
  BY DEF StatusInv, StatusTypes, Snapshot
<1>3. /\ flights' \subseteq Flight
      /\ \A f \in flights' :
             /\ f.started <= second /\ second <= f.started + ProbeTime
             /\ f.seen # 0 => f.started <= f.seen /\ f.seen <= second /\ SeenFree(f)
  <2>1. flights' \in {flights, Joined(up)}
    BY DEF ReadAccounts
  <2> QED
    BY <1>2, <2>1, JoinedFlights DEF StatusInv, StatusTypes, ObservationsKnown
<1>4. /\ list' \in Snapshot
      /\ \/ list'.seen = 0
         \/ /\ second < cache.expires + CacheTTL
            /\ list'.expires = second /\ list'.seen = cache.seen
  <2>1. CASE Displayable(up)
    BY <1>2, <2>1 DEF ReadAccounts, Displayable, Snapshot
  <2>2. CASE ~Displayable(up)
    <3>1. NoSnapshot \in Snapshot /\ NoSnapshot.seen = 0
      BY DEF NoSnapshot, Snapshot, Overlay
    <3>2. list' = [NoSnapshot EXCEPT !.services = up]
      BY <2>2 DEF ReadAccounts
    <3> QED
      BY <1>2, <3>1, <3>2 DEF Snapshot
  <2> QED
    BY <2>1, <2>2
<1>5. StatusTypes'
  BY <1>1, <1>3, <1>4 DEF StatusInv, StatusTypes
<1>6. BlockersKnown' /\ ObservationsKnown'
  BY <1>1, <1>3 DEF StatusInv, BlockersKnown, ObservationsKnown, SeenFree
<1>7. RouteChoiceCurrent'
  BY <1>1 DEF StatusInv, RouteChoiceCurrent
<1>8. ListRecent'
  <2>1. cache.expires <= cache.seen + ProbeTime + CacheTTL
    BY DEF StatusInv, ObservationsKnown
  <2> QED
    BY <1>2, <1>4, <2>1, TimesAre DEF ListRecent
<1> QED
  BY <1>5, <1>6, <1>7, <1>8 DEF StatusInv

-----------------------------------------------------------------------------
LEMMA StatusInductive == StatusInv /\ [StatusNext]_statusVars => StatusInv'
<1> SUFFICES ASSUME StatusInv, [StatusNext]_statusVars PROVE StatusInv'
  OBVIOUS
<1>1. CASE SecondPasses
  BY <1>1, SecondStep
<1>2. CASE ChangeEnds \/ ListEnds \/ UNCHANGED statusVars
  BY <1>2, QuietStep DEF ChangeEnds, ListEnds, statusVars, StatusInv, StatusTypes
<1>3. CASE ReadAccounts
  BY <1>3, ReadAccountsStep
<1>4. ASSUME NEW s \in Site, ReportChanges(s) PROVE StatusInv'
  BY <1>4, ReportStep
<1>5. ASSUME NEW s \in Site, AccountChanges(s) PROVE StatusInv'
  <2>1. up' \subseteq Site
    BY <1>5 DEF AccountChanges, StatusInv, StatusTypes
  <2> QED
    BY <1>5, <2>1, QuietStep DEF AccountChanges
<1>6. ASSUME NEW s \in Site, ChangeRoute(s) PROVE StatusInv'
  BY <1>6, ChangeRouteStep
<1>7. ASSUME NEW f \in flights, ReadNative(f) \/ RefreshEnds(f) PROVE StatusInv'
  BY <1>7, ReadNativeStep, RefreshStep
<1> QED
  BY <1>1, <1>2, <1>3, <1>4, <1>5, <1>6, <1>7 DEF StatusNext

(* StatusSound.  A blocker is never hidden; a user is moved only by an     *)
(* observation younger than a snapshot's life and a fetch, and a list      *)
(* shows nothing older than two lives and a fetch.                         *)
THEOREM StatusAlwaysSound == StatusSpec => []StatusSound
<1>1. StatusInv => StatusSound
  BY BlockersAlwaysWin DEF StatusInv, StatusSound
<1> QED
  BY <1>1, StatusBegins, StatusInductive, PTL DEF StatusSpec

-----------------------------------------------------------------------------
(* The projection of the accounts: files, what a CPA has read of them, and    *)
(* the containers of an older release, for every set of accounts, every       *)
(* finite set of callers, every number of operations, failures and deaths of  *)
(* Admin: the three parts of ProjectionSound, from one inductive invariant.   *)

(* What the variables contain, and the steps of Admin by kind.             *)
Texts == [keys : SUBSET Caller, proxy : {"direct", "custom", "unset", "broken", "legacy"}]
File == [text : Texts, size : Nat, tail : BOOLEAN]
Process == [runs : BOOLEAN, text : Texts, tail : BOOLEAN, event : BOOLEAN]

Overwriting == {"write", "cut", "sync", "back", "backcut"}
Writes == {"new"} \cup Overwriting
Replacing == {"remove", "create", "probe", "rebuild", "unlink"}
Migrates == {"migrate"} \cup Replacing
Operating == {"render", "files", "done", "failed"} \cup Writes
Resting == {"idle", "down"}

AdminState == [step : Resting \cup Operating \cup Migrates,
               op : {"none", "start", "change", "undo"},
               before : Rows, todo : SUBSET Cpa, file : Cpa \cup {"none"}, old : File]

ProjectionTypes ==
    /\ rows \in Rows /\ catalogs \subseteq Cpa
    /\ config \in [Cpa -> File]
    /\ admin \in AdminState
    /\ cpa \in [Cpa -> Process]
    /\ mount \in [Cpa -> {"none", "legacy", "directory"}]
    /\ had \in [Cpa -> {"none", "stopped", "running"}]
    /\ legacyFile \subseteq Cpa /\ lost \subseteq Cpa /\ broken \subseteq Cpa
    /\ behind \in BOOLEAN

(* What Admin is doing, and with which account.                            *)
StepsSound ==
    /\ admin.step \in Resting <=> admin.op = "none"
    /\ admin.step \in Migrates => admin.op = "start" /\ admin.todo \subseteq rows.accounts
    /\ admin.step \in Writes \cup Replacing => admin.file \in Cpa
    /\ admin.step \in Replacing => admin.file \in rows.accounts

(* How far the files are: those that are not to do say what the rows say.  *)
AllWritten == admin.step \in {"done"} \cup Migrates \/ (admin.step = "idle" /\ ~behind)
FilesWritten ==
    \A a \in rows.accounts :
        (\/ AllWritten
         \/ admin.step \in {"files", "sync"} /\ a \notin admin.todo
         \/ admin.step \in {"new", "write", "cut"} /\ a \notin admin.todo \cup {admin.file})
        => config[a] = Whole(Text(rows))
CatalogsWritten == AllWritten => catalogs = rows.accounts

(* The file being written: nothing of an older text is behind the text.    *)
WriteSound ==
    /\ \A a \in Cpa : ~config[a].tail /\ (config[a] # NoFile => config[a].size > 0)
    /\ admin.step = "new" => config[admin.file] = NoFile
    /\ admin.step \in Overwriting => config[admin.file] # NoFile /\ mount[admin.file] # "legacy"
    /\ admin.step = "write" => config[admin.file] = admin.old
    /\ admin.step = "cut" => config[admin.file].text = Text(rows)
    /\ admin.step = "sync" => config[admin.file] = Whole(Text(rows))
    /\ admin.step \in {"cut", "back"} =>
          config[admin.file].size <= Larger(admin.old.size, Size(Text(rows)))

(* Every text a CPA can have loaded.                                       *)
LoadsSound ==
    \A a \in Cpa :
        /\ config[a].text = Broken => config[a] = NoFile \/ a \in broken
        /\ cpa[a].event => cpa[a].runs
        /\ cpa[a].runs => mount[a] # "none"
        /\ mount[a] = "directory" => config[a] # NoFile
        /\ mount[a] = "directory" /\ cpa[a].runs /\ ~cpa[a].event =>
              cpa[a].text = config[a].text /\ ~cpa[a].tail

(* Containers of the older release, until the start is over.               *)
LegacySound ==
    \A a \in Cpa : mount[a] = "legacy" =>
        /\ a \in rows.accounts /\ a \in legacyFile
        /\ admin.op = "start" \/ admin.step = "down"
        /\ config[a] \in {NoFile, Whole(Text(rows))}
        /\ ~cpa[a].event /\ (cpa[a].runs => cpa[a] = Legacy)
        /\ admin.step \in Migrates \ {"rebuild"} =>
              a \in admin.todo \/ (admin.step = "remove" /\ a = admin.file)
MigrationSound ==
    /\ admin.step \in {"create", "rebuild"} => mount[admin.file] = "none"
    /\ admin.step \in {"remove", "create", "probe", "rebuild"} => admin.file \in legacyFile
    /\ admin.step \in {"probe", "unlink"} => mount[admin.file] = "directory"

(* No account is without the container it came with (see MountsMigrated).  *)
ContainersKept ==
    \A a \in Cpa :
        had[a] # "none" =>
           \/ a \in lost
           \/ admin.step \in {"create", "rebuild"} /\ a = admin.file
           \/ mount[a] # "none" /\ (had[a] = "running" => cpa[a].runs)

ProjectionInv ==
    /\ ProjectionTypes /\ StepsSound /\ FilesWritten /\ CatalogsWritten /\ WriteSound
    /\ LoadsSound /\ LegacySound /\ MigrationSound /\ ContainersKept

-----------------------------------------------------------------------------
(***************************************************************************)
(* Texts and files.                                                        *)
(***************************************************************************)
USE DEF Overwriting, Writes, Replacing, Migrates, Operating, Resting

(* No text is empty, and none is without end.                              *)
LEMMA SizePositive ==
  ASSUME NEW text \in Texts
  PROVE  Size(text) \in Nat /\ Size(text) > 0
<1>1. text.keys \subseteq Caller
  BY DEF Texts
<1> QED BY <1>1, ProjectionAssumption, FS_Subset, FS_CardinalityType DEF Size

(* The files and CPAs that are named.                                      *)
LEMMA KnownTexts ==
  /\ Broken \in Texts /\ NoFile \in File /\ NoFile.text = Broken /\ NoFile.size = 0 /\ ~NoFile.tail
  /\ NotRunning \in Process /\ ~NotRunning.runs /\ ~NotRunning.event
  /\ Legacy \in Process /\ Legacy.runs /\ ~Legacy.event /\ ~Legacy.tail
  /\ Legacy.text \in Texts /\ Legacy.text # Broken
  /\ NoRows \in Rows
BY DEF Broken, Texts, NoFile, File, NotRunning, Process, Legacy, NoRows, Rows

(* What would be rendered now.                                             *)
LEMMA RenderedNow ==
  ASSUME ProjectionInv
  PROVE  /\ rows.accounts \subseteq Cpa
         /\ Text(rows) \in Texts /\ Text(rows) # Broken
         /\ Whole(Text(rows)) \in File /\ Whole(Text(rows)) # NoFile
         /\ Whole(Text(rows)).text = Text(rows) /\ ~Whole(Text(rows)).tail
         /\ Whole(Text(rows)).size = Size(Text(rows))
         /\ Size(Text(rows)) \in Nat /\ Size(Text(rows)) > 0
<1>1. rows \in Rows /\ rows.accounts \subseteq Cpa
  BY DEF ProjectionInv, ProjectionTypes, Rows
<1>2. Text(rows) \in Texts /\ Text(rows) # Broken
  BY <1>1 DEF Text, Texts, Rows, Broken
<1>3. Size(Text(rows)) \in Nat /\ Size(Text(rows)) > 0
  BY <1>2, SizePositive
<1> QED BY <1>1, <1>2, <1>3 DEF Whole, File, NoFile

(* A write to the config of an account, of which a watching CPA gets an    *)
(* event.                                                                  *)
LEMMA PutSound ==
  ASSUME ProjectionInv, NEW a \in Cpa, NEW file \in File, Put(a, file)
  PROVE  /\ config' \in [Cpa -> File] /\ config'[a] = file
         /\ \A b \in Cpa \ {a} : config'[b] = config[b] /\ cpa'[b] = cpa[b]
         /\ cpa' \in [Cpa -> Process]
         /\ cpa'[a] = [cpa[a] EXCEPT !.event = cpa[a].runs /\ mount[a] = "directory"]
         /\ \A b \in Cpa : cpa'[b].runs = cpa[b].runs
<1>1. cpa \in [Cpa -> Process] /\ config \in [Cpa -> File]
  BY DEF ProjectionInv, ProjectionTypes
<1>2. /\ config' = [config EXCEPT ![a] = file]
      /\ cpa' = [cpa EXCEPT ![a] = [@ EXCEPT !.event = cpa[a].runs /\ mount[a] = "directory"]]
  BY <1>1 DEF Put
<1>3. [cpa[a] EXCEPT !.event = cpa[a].runs /\ mount[a] = "directory"] \in Process
  BY <1>1 DEF Process
<1>4. cpa'[a].runs = cpa[a].runs
  BY <1>1, <1>2 DEF Process
<1> QED BY <1>1, <1>2, <1>3, <1>4

(* A file that is overwritten: its CPA gets an event unless it is not      *)
(* running, and what it will load is no half text that is not known.       *)
LEMMA OverwriteLoads ==
  ASSUME ProjectionInv, NEW a \in Cpa, mount[a] # "legacy",
         NEW file \in File, Put(a, file), ~file.tail, file # NoFile,
         broken \ {a} \subseteq broken', file.text = Broken => a \in broken',
         UNCHANGED mount
  PROVE  LoadsSound'
<1>1. /\ config'[a] = file /\ \A b \in Cpa \ {a} : config'[b] = config[b] /\ cpa'[b] = cpa[b]
      /\ cpa'[a].runs = cpa[a].runs
      /\ cpa'[a].event => cpa[a].runs
      /\ cpa[a].runs /\ mount[a] = "directory" => cpa'[a].event
  BY PutSound DEF Process, ProjectionInv, ProjectionTypes
<1>2. LoadsSound
  BY DEF ProjectionInv
<1>3. mount[a] # "none" => mount[a] = "directory"
  BY DEF ProjectionInv, ProjectionTypes
<1> QED BY <1>1, <1>2, <1>3 DEF LoadsSound

(* The overwritten file belongs to no container of the older release.      *)
LEMMA OverwriteLegacy ==
  ASSUME ProjectionInv, admin.step \in Overwriting,
         \A b \in Cpa \ {admin.file} : config'[b] = config[b] /\ cpa'[b] = cpa[b],
         admin'.step \in Overwriting \cup {"files", "failed"}, admin'.op = admin.op,
         UNCHANGED <<rows, mount, legacyFile>>
  PROVE  LegacySound'
BY DEF ProjectionInv, LegacySound, WriteSound, StepsSound

(* The steps of a write.                                                   *)
LEMMA WriteAtomicKeeps ==
  ASSUME ProjectionInv, WriteAtomic
  PROVE  ProjectionInv'
<1>1. /\ admin.step = "new" /\ admin.file \in Cpa /\ config[admin.file] = NoFile
      /\ Put(admin.file, Whole(Text(rows)))
      /\ admin' = [admin EXCEPT !.step = "files"]
      /\ UNCHANGED <<rows, catalogs, mount, legacyFile, had, lost, behind, broken>>
      /\ mount[admin.file] \in {"none", "legacy"}
  BY RenderedNow DEF WriteAtomic, writeFrame, mountVars, ProjectionInv, ProjectionTypes,
     WriteSound, StepsSound, LoadsSound
<1>2. /\ config' \in [Cpa -> File] /\ config'[admin.file] = Whole(Text(rows))
      /\ \A b \in Cpa \ {admin.file} : config'[b] = config[b] /\ cpa'[b] = cpa[b]
      /\ cpa' \in [Cpa -> Process]
      /\ cpa'[admin.file] = [cpa[admin.file] EXCEPT !.event = FALSE]
      /\ \A b \in Cpa : cpa'[b].runs = cpa[b].runs
  BY <1>1, RenderedNow, PutSound
<1>3. admin' \in AdminState /\ admin'.step = "files" /\ admin'.op = admin.op
      /\ admin'.todo = admin.todo /\ admin'.file = admin.file
  BY <1>1 DEF ProjectionInv, ProjectionTypes, AdminState
<1>4. ProjectionTypes' /\ StepsSound' /\ CatalogsWritten' /\ MigrationSound'
  BY <1>1, <1>2, <1>3
  DEF ProjectionInv, ProjectionTypes, StepsSound, CatalogsWritten, AllWritten, MigrationSound
<1>5. FilesWritten'
  BY <1>1, <1>2, <1>3, RenderedNow DEF ProjectionInv, FilesWritten, AllWritten
<1>6. WriteSound'
  BY <1>1, <1>2, <1>3, RenderedNow DEF ProjectionInv, WriteSound
<1>7. LoadsSound'
  BY <1>1, <1>2, RenderedNow DEF ProjectionInv, LoadsSound, ProjectionTypes, Process
<1>8. LegacySound'
  <2>1. cpa[admin.file] \in Process /\ (mount[admin.file] = "legacy" =>
            ~cpa[admin.file].event /\ cpa'[admin.file] = cpa[admin.file])
    BY <1>1, <1>2 DEF ProjectionInv, ProjectionTypes, LegacySound, Process
  <2> QED BY <1>1, <1>2, <1>3, <2>1 DEF ProjectionInv, LegacySound, StepsSound
<1>9. ContainersKept'
  BY <1>1, <1>2, <1>3 DEF ProjectionInv, ContainersKept
<1> QED BY <1>4, <1>5, <1>6, <1>7, <1>8, <1>9 DEF ProjectionInv

LEMMA WriteAtKeeps ==
  ASSUME ProjectionInv, WriteAt
  PROVE  ProjectionInv'
<1> DEFINE file == Overwritten(config[admin.file], Text(rows), admin.old.size)
<1>1. /\ admin.step = "write" /\ admin.file \in Cpa /\ Put(admin.file, file)
      /\ admin' = [admin EXCEPT !.step = "cut"] /\ broken' = broken \ {admin.file}
      /\ mount[admin.file] # "legacy"
      /\ UNCHANGED <<rows, catalogs, mount, legacyFile, had, lost, behind>>
  BY DEF WriteAt, writeFrame, mountVars, ProjectionInv, WriteSound, StepsSound
<1>2. config[admin.file] = admin.old /\ admin.old \in File
  BY <1>1 DEF ProjectionInv, WriteSound, ProjectionTypes, AdminState
<1>3. file \in File /\ file # NoFile /\ file.text = Text(rows) /\ ~file.tail /\ file.size > 0
      /\ file.size <= Larger(admin.old.size, Size(Text(rows)))
  BY <1>1, <1>2, RenderedNow, KnownTexts DEF Overwritten, Larger, File
<1> HIDE DEF file
<1>4. /\ config' \in [Cpa -> File] /\ config'[admin.file] = file
      /\ \A b \in Cpa \ {admin.file} : config'[b] = config[b] /\ cpa'[b] = cpa[b]
      /\ cpa' \in [Cpa -> Process]
      /\ \A b \in Cpa : cpa'[b].runs = cpa[b].runs
  BY <1>1, <1>3, PutSound
<1>5. admin' \in AdminState /\ admin'.step = "cut" /\ admin'.op = admin.op
      /\ admin'.todo = admin.todo /\ admin'.file = admin.file /\ admin'.old = admin.old
  BY <1>1 DEF ProjectionInv, ProjectionTypes, AdminState
<1>6. ProjectionTypes' /\ StepsSound' /\ CatalogsWritten' /\ MigrationSound'
  BY <1>1, <1>4, <1>5
  DEF ProjectionInv, ProjectionTypes, StepsSound, CatalogsWritten, AllWritten, MigrationSound
<1>7. FilesWritten'
  BY <1>1, <1>4, <1>5, RenderedNow DEF ProjectionInv, FilesWritten, AllWritten
<1>8. WriteSound'
  BY <1>1, <1>3, <1>4, <1>5 DEF ProjectionInv, WriteSound
<1>9. LoadsSound' /\ LegacySound'
  BY <1>1, <1>3, <1>4, <1>5, RenderedNow, OverwriteLoads, OverwriteLegacy
<1>10. ContainersKept'
  BY <1>1, <1>4, <1>5 DEF ProjectionInv, ContainersKept
<1> QED BY <1>6, <1>7, <1>8, <1>9, <1>10 DEF ProjectionInv

(* What is left when a file ends with its text.                            *)
LEMMA CutSound ==
  ASSUME NEW file \in File
  PROVE  /\ Cut(file) \in File /\ Cut(file) # NoFile /\ Cut(file).text = file.text
         /\ ~Cut(file).tail /\ Cut(file).size > 0
         /\ Cut(file) = Whole(file.text)
<1>1. file.text \in Texts
  BY DEF File
<1>2. Size(file.text) \in Nat /\ Size(file.text) > 0
  BY <1>1, SizePositive
<1> QED BY <1>1, <1>2, KnownTexts DEF Cut, Whole, File

LEMMA TruncateKeeps ==
  ASSUME ProjectionInv, Truncate
  PROVE  ProjectionInv'
<1>1. /\ admin.step = "cut" /\ admin.file \in Cpa /\ Put(admin.file, Cut(config[admin.file]))
      /\ admin' = [admin EXCEPT !.step = "sync"]
      /\ mount[admin.file] # "legacy"
      /\ UNCHANGED <<rows, catalogs, mount, legacyFile, had, lost, behind, broken>>
  BY DEF Truncate, writeFrame, mountVars, ProjectionInv, WriteSound, StepsSound
<1>2. Cut(config[admin.file]) = Whole(Text(rows))
  <2>1. config[admin.file] \in File /\ config[admin.file].text = Text(rows)
    BY <1>1 DEF ProjectionInv, ProjectionTypes, WriteSound
  <2> QED BY <2>1, RenderedNow, CutSound
<1>3. /\ config' \in [Cpa -> File] /\ config'[admin.file] = Whole(Text(rows))
      /\ \A b \in Cpa \ {admin.file} : config'[b] = config[b] /\ cpa'[b] = cpa[b]
      /\ cpa' \in [Cpa -> Process]
      /\ \A b \in Cpa : cpa'[b].runs = cpa[b].runs
  BY <1>1, <1>2, RenderedNow, PutSound
<1>4. admin' \in AdminState /\ admin'.step = "sync" /\ admin'.op = admin.op
      /\ admin'.todo = admin.todo /\ admin'.file = admin.file
  BY <1>1 DEF ProjectionInv, ProjectionTypes, AdminState
<1>5. ProjectionTypes' /\ StepsSound' /\ CatalogsWritten' /\ MigrationSound'
  BY <1>1, <1>3, <1>4
  DEF ProjectionInv, ProjectionTypes, StepsSound, CatalogsWritten, AllWritten, MigrationSound
<1>6. FilesWritten' /\ WriteSound'
  BY <1>1, <1>3, <1>4, RenderedNow DEF ProjectionInv, FilesWritten, AllWritten, WriteSound
<1>7. LoadsSound' /\ LegacySound'
  BY <1>1, <1>2, <1>3, <1>4, RenderedNow, OverwriteLoads, OverwriteLegacy
<1>8. ContainersKept'
  BY <1>1, <1>3, <1>4 DEF ProjectionInv, ContainersKept
<1> QED BY <1>5, <1>6, <1>7, <1>8 DEF ProjectionInv

LEMMA RestoreKeeps ==
  ASSUME ProjectionInv, Restore
  PROVE  ProjectionInv'
<1> DEFINE old == admin.old.text
           file == Restored(config[admin.file], old, Larger(admin.old.size, Size(Text(rows))))
<1>1. /\ admin.step = "back" /\ admin.file \in Cpa /\ Put(admin.file, file)
      /\ admin' = [admin EXCEPT !.step = "backcut"]
      /\ broken' = IF old = Broken THEN broken \cup {admin.file} ELSE broken \ {admin.file}
      /\ mount[admin.file] # "legacy"
      /\ UNCHANGED <<rows, catalogs, mount, legacyFile, had, lost, behind>>
  BY DEF Restore, writeFrame, mountVars, ProjectionInv, WriteSound, StepsSound
<1>2. /\ config[admin.file] \in File /\ admin.old \in File
      /\ config[admin.file].size <= Larger(admin.old.size, Size(Text(rows)))
  BY <1>1 DEF ProjectionInv, WriteSound, ProjectionTypes, AdminState
<1>3. old \in Texts /\ Size(old) \in Nat /\ Size(old) > 0 /\ admin.old.size \in Nat
      /\ config[admin.file].size \in Nat
  BY <1>2, SizePositive DEF File
<1>4. file \in File /\ file # NoFile /\ file.text = old /\ ~file.tail /\ file.size > 0
  BY <1>2, <1>3, RenderedNow, KnownTexts DEF Restored, Overwritten, Larger, File
<1> HIDE DEF file
<1>5. /\ config' \in [Cpa -> File] /\ config'[admin.file] = file
      /\ \A b \in Cpa \ {admin.file} : config'[b] = config[b] /\ cpa'[b] = cpa[b]
      /\ cpa' \in [Cpa -> Process]
      /\ \A b \in Cpa : cpa'[b].runs = cpa[b].runs
  BY <1>1, <1>4, PutSound
<1>6. admin' \in AdminState /\ admin'.step = "backcut" /\ admin'.op = admin.op
      /\ admin'.todo = admin.todo /\ admin'.file = admin.file
  BY <1>1 DEF ProjectionInv, ProjectionTypes, AdminState
<1>7. ProjectionTypes' /\ StepsSound' /\ CatalogsWritten' /\ MigrationSound'
  BY <1>1, <1>5, <1>6
  DEF ProjectionInv, ProjectionTypes, StepsSound, CatalogsWritten, AllWritten, MigrationSound
<1>8. FilesWritten' /\ WriteSound'
  BY <1>1, <1>4, <1>5, <1>6 DEF ProjectionInv, FilesWritten, AllWritten, WriteSound
<1>9. LoadsSound' /\ LegacySound'
  BY <1>1, <1>4, <1>5, <1>6, OverwriteLoads, OverwriteLegacy
<1>10. ContainersKept'
  BY <1>1, <1>5, <1>6 DEF ProjectionInv, ContainersKept
<1> QED BY <1>7, <1>8, <1>9, <1>10 DEF ProjectionInv

LEMMA TruncateBackKeeps ==
  ASSUME ProjectionInv, TruncateBack
  PROVE  ProjectionInv'
<1> DEFINE file == Cut(config[admin.file])
<1>1. /\ admin.step = "backcut" /\ admin.file \in Cpa /\ Put(admin.file, file)
      /\ admin' = [admin EXCEPT !.step = "failed"]
      /\ mount[admin.file] # "legacy" /\ config[admin.file] # NoFile
      /\ UNCHANGED <<rows, catalogs, mount, legacyFile, had, lost, behind, broken>>
  BY DEF TruncateBack, writeFrame, mountVars, ProjectionInv, WriteSound, StepsSound
<1>2. config[admin.file] \in File /\ config[admin.file].text \in Texts
      /\ Size(config[admin.file].text) \in Nat /\ Size(config[admin.file].text) > 0
  BY <1>1, SizePositive DEF ProjectionInv, ProjectionTypes, File
<1>3. file \in File /\ file # NoFile /\ file.text = config[admin.file].text /\ ~file.tail
      /\ file.size > 0
  BY <1>2, CutSound
<1>4. file.text = Broken => admin.file \in broken
  BY <1>1, <1>3 DEF ProjectionInv, LoadsSound
<1> HIDE DEF file
<1>5. /\ config' \in [Cpa -> File] /\ config'[admin.file] = file
      /\ \A b \in Cpa \ {admin.file} : config'[b] = config[b] /\ cpa'[b] = cpa[b]
      /\ cpa' \in [Cpa -> Process]
      /\ \A b \in Cpa : cpa'[b].runs = cpa[b].runs
  BY <1>1, <1>3, PutSound
<1>6. admin' \in AdminState /\ admin'.step = "failed" /\ admin'.op = admin.op
      /\ admin'.todo = admin.todo /\ admin'.file = admin.file
  BY <1>1 DEF ProjectionInv, ProjectionTypes, AdminState
<1>7. ProjectionTypes' /\ StepsSound' /\ CatalogsWritten' /\ MigrationSound'
  BY <1>1, <1>5, <1>6
  DEF ProjectionInv, ProjectionTypes, StepsSound, CatalogsWritten, AllWritten, MigrationSound
<1>8. FilesWritten' /\ WriteSound'
  BY <1>1, <1>3, <1>5, <1>6 DEF ProjectionInv, FilesWritten, AllWritten, WriteSound
<1>9. LoadsSound' /\ LegacySound'
  BY <1>1, <1>3, <1>4, <1>5, <1>6, OverwriteLoads, OverwriteLegacy
<1>10. ContainersKept'
  BY <1>1, <1>5, <1>6 DEF ProjectionInv, ContainersKept
<1> QED BY <1>7, <1>8, <1>9, <1>10 DEF ProjectionInv

LEMMA WriteFailsKeeps ==
  ASSUME ProjectionInv, WriteFails
  PROVE  ProjectionInv'
<1>1. /\ admin.step \in {"write", "cut", "sync"} /\ admin.file \in Cpa
      /\ admin' = [admin EXCEPT !.step = "back"]
      /\ mount[admin.file] # "legacy" /\ config[admin.file] # NoFile
      /\ UNCHANGED <<rows, catalogs, mount, legacyFile, had, lost, behind>>
  BY DEF WriteFails, writeFrame, mountVars, ProjectionInv, WriteSound, StepsSound
<1>2. admin' \in AdminState /\ admin'.step = "back" /\ admin'.op = admin.op
      /\ admin'.todo = admin.todo /\ admin'.file = admin.file /\ admin'.old = admin.old
  BY <1>1 DEF ProjectionInv, ProjectionTypes, AdminState
<1>3. /\ config[admin.file] \in File /\ admin.old.size \in Nat
      /\ ~config[admin.file].tail /\ config[admin.file].size > 0
  BY <1>1 DEF ProjectionInv, ProjectionTypes, AdminState, File, WriteSound
<1>4. CASE admin.step = "write"
  <2> DEFINE file == [config[admin.file] EXCEPT !.text = Broken]
  <2>1. Put(admin.file, file) /\ broken' = broken \cup {admin.file}
        /\ config[admin.file] = admin.old
    BY <1>4 DEF WriteFails, ProjectionInv, WriteSound
  <2>2. file \in File /\ file # NoFile /\ ~file.tail /\ file.size = admin.old.size
        /\ file.size > 0
    BY <1>3, <2>1, KnownTexts DEF File
  <2>3. file.size <= Larger(admin.old.size, Size(Text(rows)))
    BY <1>3, <2>2, RenderedNow DEF Larger
  <2> HIDE DEF file
  <2>4. /\ config' \in [Cpa -> File] /\ config'[admin.file] = file
        /\ \A b \in Cpa \ {admin.file} : config'[b] = config[b] /\ cpa'[b] = cpa[b]
        /\ cpa' \in [Cpa -> Process]
        /\ \A b \in Cpa : cpa'[b].runs = cpa[b].runs
    BY <1>1, <2>1, <2>2, PutSound
  <2>5. ProjectionTypes' /\ StepsSound' /\ CatalogsWritten' /\ MigrationSound'
    BY <1>1, <1>2, <2>1, <2>4
    DEF ProjectionInv, ProjectionTypes, StepsSound, CatalogsWritten, AllWritten, MigrationSound
  <2>6. FilesWritten' /\ WriteSound'
    BY <1>1, <1>2, <2>2, <2>3, <2>4 DEF ProjectionInv, FilesWritten, AllWritten, WriteSound
  <2>7. LoadsSound' /\ LegacySound'
    BY <1>1, <1>2, <2>1, <2>2, <2>4, OverwriteLoads, OverwriteLegacy
  <2>8. ContainersKept'
    BY <1>1, <1>2, <2>4 DEF ProjectionInv, ContainersKept
  <2> QED BY <2>5, <2>6, <2>7, <2>8 DEF ProjectionInv
<1>5. CASE admin.step # "write"
  <2>1. UNCHANGED <<config, cpa, broken>> /\ admin.step \in {"cut", "sync"}
    BY <1>1, <1>5 DEF WriteFails
  <2>2. config[admin.file].size <= Larger(admin.old.size, Size(Text(rows)))
    BY <1>1, <1>3, <2>1, RenderedNow
    DEF ProjectionInv, WriteSound, Larger
  <2> QED BY <1>1, <1>2, <2>1, <2>2
      DEF ProjectionInv, ProjectionTypes, StepsSound, CatalogsWritten, AllWritten, MigrationSound,
          FilesWritten, WriteSound, LoadsSound, LegacySound, ContainersKept
<1> QED BY <1>4, <1>5

(* Steps that change nothing but what Admin is doing.                      *)
AdminOnly == UNCHANGED <<rows, config, catalogs, cpa, mountVars, broken>>

LEMMA BootKeeps == ASSUME ProjectionInv, Boot PROVE ProjectionInv'
<1>1. /\ admin.step = "down" /\ AdminOnly /\ UNCHANGED behind
      /\ admin' = [Idle EXCEPT !.step = "render", !.op = "start"]
  BY DEF Boot, AdminOnly
<1>2. admin' \in AdminState /\ admin'.step = "render" /\ admin'.op = "start"
  BY <1>1, KnownTexts DEF Idle, AdminState
<1> QED BY <1>1, <1>2
    DEF AdminOnly, mountVars, ProjectionInv, ProjectionTypes, StepsSound, FilesWritten,
        CatalogsWritten, AllWritten, WriteSound, LoadsSound, LegacySound, MigrationSound,
        ContainersKept

LEMMA RenderKeeps == ASSUME ProjectionInv, Render PROVE ProjectionInv'
<1>1. /\ admin.step = "render" /\ AdminOnly /\ UNCHANGED behind
      /\ admin' = [admin EXCEPT !.step = "files", !.todo = rows.accounts]
  BY DEF Render, AdminOnly
<1>2. admin' \in AdminState /\ admin'.step = "files" /\ admin'.op = admin.op
      /\ admin'.todo = rows.accounts
  BY <1>1, RenderedNow DEF AdminState, ProjectionInv, ProjectionTypes
<1> QED BY <1>1, <1>2
    DEF AdminOnly, mountVars, ProjectionInv, ProjectionTypes, StepsSound, FilesWritten,
        CatalogsWritten, AllWritten, WriteSound, LoadsSound, LegacySound, MigrationSound,
        ContainersKept

LEMMA OpenKeeps ==
  ASSUME ProjectionInv, NEW a \in Cpa, Open(a) PROVE ProjectionInv'
<1>1. /\ admin.step = "files" /\ a \in admin.todo /\ AdminOnly /\ UNCHANGED behind
      /\ admin' = [admin EXCEPT !.todo = @ \ {a}, !.file = a, !.old = config[a],
                       !.step = IF config[a] = NoFile THEN "new"
                                ELSE IF config[a] = Whole(Text(rows)) THEN "files" ELSE "write"]
  BY DEF Open, AdminOnly, writeFrame
<1>2. /\ admin' \in AdminState /\ admin'.op = admin.op /\ admin'.todo = admin.todo \ {a}
      /\ admin'.file = a /\ admin'.old = config[a]
      /\ \/ admin'.step = "new" /\ config[a] = NoFile
         \/ admin'.step = "files" /\ config[a] = Whole(Text(rows))
         \/ admin'.step = "write" /\ config[a] \notin {NoFile, Whole(Text(rows))}
  BY <1>1 DEF AdminState, ProjectionInv, ProjectionTypes
<1>3. ProjectionTypes' /\ StepsSound' /\ CatalogsWritten' /\ LoadsSound'
      /\ MigrationSound' /\ ContainersKept'
  BY <1>1, <1>2
  DEF AdminOnly, mountVars, ProjectionInv, ProjectionTypes, StepsSound,
      CatalogsWritten, AllWritten, LoadsSound, MigrationSound, ContainersKept
<1>4. FilesWritten' /\ LegacySound'
  BY <1>1, <1>2
  DEF AdminOnly, mountVars, ProjectionInv, FilesWritten, AllWritten, LegacySound
<1>5. WriteSound'
  <2>1. admin'.step = "write" => mount[a] # "legacy"
    BY <1>2 DEF ProjectionInv, LegacySound
  <2> QED BY <1>1, <1>2, <2>1 DEF AdminOnly, mountVars, ProjectionInv, WriteSound
<1> QED BY <1>3, <1>4, <1>5 DEF ProjectionInv

LEMMA SyncKeeps == ASSUME ProjectionInv, Sync PROVE ProjectionInv'
<1>1. /\ admin.step = "sync" /\ AdminOnly /\ UNCHANGED behind
      /\ admin' = [admin EXCEPT !.step = "files"]
  BY DEF Sync, AdminOnly, writeFrame
<1>2. admin' \in AdminState /\ admin'.step = "files" /\ admin'.op = admin.op
      /\ admin'.todo = admin.todo
  BY <1>1 DEF AdminState, ProjectionInv, ProjectionTypes
<1> QED BY <1>1, <1>2
    DEF AdminOnly, mountVars, ProjectionInv, ProjectionTypes, StepsSound, FilesWritten,
        CatalogsWritten, AllWritten, WriteSound, LoadsSound, LegacySound, MigrationSound,
        ContainersKept

(* A write or a step of the migration fails, and with it the operation.    *)
LEMMA GivingUpKeeps ==
  ASSUME ProjectionInv, AdminOnly, UNCHANGED behind,
         admin.step \in {"files", "new", "back", "backcut", "migrate", "remove", "unlink"},
         admin' = [admin EXCEPT !.step = "failed"]
  PROVE  ProjectionInv'
<1>1. admin' \in AdminState /\ admin'.step = "failed" /\ admin'.op = admin.op
  BY DEF AdminState, ProjectionInv, ProjectionTypes
<1> QED BY <1>1
    DEF AdminOnly, mountVars, ProjectionInv, ProjectionTypes, StepsSound, FilesWritten,
        CatalogsWritten, AllWritten, WriteSound, LoadsSound, LegacySound, MigrationSound,
        ContainersKept

LEMMA GivenUpKeeps ==
  ASSUME ProjectionInv, RestoreFails \/ FileFails \/ MigrationFails PROVE ProjectionInv'
BY GivingUpKeeps DEF RestoreFails, FileFails, MigrationFails, AdminOnly, writeFrame, migrateFrame,
   Goto

(* An operation has failed: its rows go back, or nothing is certain.       *)
LEMMA FailedKeeps ==
  ASSUME ProjectionInv, admin.step \in {"render", "failed"}, Failed,
         UNCHANGED <<config, catalogs, cpa, mountVars, broken>>
  PROVE  ProjectionInv'
<1>1. CASE admin.op = "change" /\ rows' = admin.before /\ UNCHANGED behind
           /\ admin' = [Idle EXCEPT !.step = "render", !.op = "undo"]
  <2>1. rows' \in Rows /\ admin' \in AdminState /\ admin'.step = "render" /\ admin'.op = "undo"
    BY <1>1, KnownTexts DEF Idle, AdminState, ProjectionInv, ProjectionTypes
  <2>2. \A a \in Cpa : mount[a] # "legacy"
    BY <1>1 DEF ProjectionInv, LegacySound
  <2> QED BY <1>1, <2>1, <2>2
      DEF mountVars, ProjectionInv, ProjectionTypes, StepsSound, FilesWritten,
          CatalogsWritten, AllWritten, WriteSound, LoadsSound, LegacySound, MigrationSound,
          ContainersKept
<1>2. CASE admin.op = "change" /\ admin' = Idle /\ behind' = TRUE /\ UNCHANGED rows
  <2>1. admin' \in AdminState /\ admin'.step = "idle" /\ admin'.op = "none"
    BY <1>2, KnownTexts DEF Idle, AdminState
  <2>2. \A a \in Cpa : mount[a] # "legacy"
    BY <1>2 DEF ProjectionInv, LegacySound
  <2> QED BY <1>2, <2>1, <2>2
      DEF mountVars, ProjectionInv, ProjectionTypes, StepsSound, FilesWritten,
          CatalogsWritten, AllWritten, WriteSound, LoadsSound, LegacySound, MigrationSound,
          ContainersKept
<1>3. CASE admin.op # "change" /\ behind' = TRUE /\ UNCHANGED rows
           /\ admin' = IF admin.op = "start" THEN Down ELSE Idle
  <2>1. /\ admin' \in AdminState /\ admin'.op = "none"
        /\ admin'.step = IF admin.op = "start" THEN "down" ELSE "idle"
    BY <1>3, KnownTexts DEF Idle, Down, AdminState
  <2>2. admin.op # "start" => \A a \in Cpa : mount[a] # "legacy"
    BY DEF ProjectionInv, LegacySound
  <2> QED BY <1>3, <2>1, <2>2
      DEF mountVars, ProjectionInv, ProjectionTypes, StepsSound, FilesWritten,
          CatalogsWritten, AllWritten, WriteSound, LoadsSound, LegacySound, MigrationSound,
          ContainersKept
<1> QED BY <1>1, <1>2, <1>3 DEF Failed

LEMMA RefuseKeeps ==
  ASSUME ProjectionInv, Refuse \/ RenderFails PROVE ProjectionInv'
BY FailedKeeps DEF Refuse, RenderFails

(* One transaction changes the rows of one kind.                           *)
LEMMA ChangeKeeps == ASSUME ProjectionInv, Change PROVE ProjectionInv'
<1>1. /\ admin.step = "idle" /\ rows' \in Rows
      /\ admin' = [Idle EXCEPT !.step = "render", !.op = "change", !.before = rows]
      /\ UNCHANGED <<config, catalogs, cpa, mountVars, behind, broken>>
  BY DEF Change
<1>2. admin' \in AdminState /\ admin'.step = "render" /\ admin'.op = "change"
  BY <1>1, KnownTexts DEF Idle, AdminState, ProjectionInv, ProjectionTypes
<1>3. \A a \in Cpa : mount[a] # "legacy"
  BY <1>1 DEF ProjectionInv, LegacySound, StepsSound
<1> QED BY <1>1, <1>2, <1>3
    DEF mountVars, ProjectionInv, ProjectionTypes, StepsSound, FilesWritten,
        CatalogsWritten, AllWritten, WriteSound, LoadsSound, LegacySound, MigrationSound,
        ContainersKept

(* All configs are written.                                                *)
LEMMA WriteCatalogsKeeps ==
  ASSUME ProjectionInv, WriteCatalogs PROVE ProjectionInv'
<1>1. /\ admin.step = "files" /\ admin.todo = {} /\ catalogs' = rows.accounts
      /\ admin' = [admin EXCEPT !.step = "done"]
      /\ UNCHANGED <<rows, config, cpa, mountVars, behind, broken>>
  BY DEF WriteCatalogs
<1>2. admin' \in AdminState /\ admin'.step = "done" /\ admin'.op = admin.op
  BY <1>1 DEF AdminState, ProjectionInv, ProjectionTypes
<1> QED BY <1>1, <1>2, RenderedNow
    DEF mountVars, ProjectionInv, ProjectionTypes, StepsSound, FilesWritten,
        CatalogsWritten, AllWritten, WriteSound, LoadsSound, LegacySound, MigrationSound,
        ContainersKept

(* What belongs to accounts that are gone is removed.                      *)
LEMMA DoneKeeps == ASSUME ProjectionInv, Done PROVE ProjectionInv'
<1> DEFINE kept == rows.accounts
<1>1. /\ admin.step = "done" /\ admin.op # "start" /\ admin' = Idle /\ behind' = FALSE
      /\ UNCHANGED <<rows, catalogs, legacyFile>>
      /\ lost' = lost \cap kept /\ broken' = broken \cap kept
      /\ cpa' = [a \in Cpa |-> IF a \in kept THEN cpa[a] ELSE NotRunning]
      /\ config' = [a \in Cpa |-> IF a \in kept THEN config[a] ELSE NoFile]
      /\ mount' = [a \in Cpa |-> IF a \in kept THEN mount[a] ELSE "none"]
      /\ had' = [a \in Cpa |-> IF a \in kept THEN had[a] ELSE "none"]
  BY DEF Done
<1>2. admin' \in AdminState /\ admin'.step = "idle" /\ admin'.op = "none"
  BY <1>1, KnownTexts DEF Idle, AdminState
<1>3. ProjectionTypes'
  BY <1>1, <1>2, KnownTexts DEF ProjectionInv, ProjectionTypes
<1>4. \A a \in Cpa : mount[a] # "legacy"
  BY <1>1 DEF ProjectionInv, LegacySound
<1>5. StepsSound' /\ MigrationSound' /\ LegacySound' /\ ContainersKept'
  BY <1>1, <1>2, <1>4
  DEF ProjectionInv, StepsSound, MigrationSound, LegacySound, ContainersKept
<1>6. FilesWritten' /\ CatalogsWritten'
  BY <1>1, <1>2, RenderedNow
  DEF ProjectionInv, FilesWritten, CatalogsWritten, AllWritten
<1>7. WriteSound' /\ LoadsSound'
  BY <1>1, <1>2, KnownTexts DEF ProjectionInv, WriteSound, LoadsSound
<1> QED BY <1>3, <1>5, <1>6, <1>7 DEF ProjectionInv

(* Admin dies; a config that is being overwritten may stay half written.   *)
LEMMA DieKeeps == ASSUME ProjectionInv, Die PROVE ProjectionInv'
<1>1. PICK torn \in SUBSET ({admin.file} \cap (IF admin.step \in {"write", "back"} THEN Cpa
                                                                                 ELSE {})) :
        /\ config' = [a \in Cpa |-> IF a \in torn THEN [config[a] EXCEPT !.text = Broken]
                                                  ELSE config[a]]
        /\ broken' = broken \cup torn
        /\ cpa' = [a \in Cpa |-> [cpa[a] EXCEPT !.event = @ \/ (a \in torn /\ cpa[a].runs)]]
  BY DEF Die
<1>2. /\ admin.step # "down" /\ admin' = Down /\ behind' = TRUE
      /\ UNCHANGED <<rows, catalogs, mount, legacyFile, had>>
      /\ lost' = lost \cup (IF admin.step \in {"create", "rebuild"} /\ mount[admin.file] = "none"
                            THEN {admin.file} ELSE {})
  BY DEF Die
<1>3. admin' \in AdminState /\ admin'.step = "down" /\ admin'.op = "none"
  BY <1>2, KnownTexts DEF Idle, Down, AdminState
<1>4. \A a \in torn : a \in Cpa /\ a = admin.file /\ config[a] # NoFile /\ mount[a] # "legacy"
  BY <1>1 DEF ProjectionInv, WriteSound
<1>5. ASSUME NEW a \in Cpa
      PROVE  /\ config'[a] \in File /\ config'[a].size = config[a].size
             /\ config'[a].tail = config[a].tail
             /\ a \notin torn => config'[a] = config[a] /\ cpa'[a] = cpa[a]
             /\ a \in torn => config'[a].text = Broken
             /\ cpa'[a] \in Process /\ cpa'[a].runs = cpa[a].runs
             /\ cpa'[a].event => cpa[a].event \/ cpa[a].runs
             /\ a \in torn /\ cpa[a].runs => cpa'[a].event
  <2>1. config[a] \in File /\ cpa[a] \in Process
    BY DEF ProjectionInv, ProjectionTypes
  <2>2. config'[a] = IF a \in torn THEN [config[a] EXCEPT !.text = Broken] ELSE config[a]
    BY <1>1
  <2>3. cpa'[a] = [cpa[a] EXCEPT !.event = @ \/ (a \in torn /\ cpa[a].runs)]
    BY <1>1
  <2>4. /\ config'[a] \in File /\ config'[a].size = config[a].size
        /\ config'[a].tail = config[a].tail
        /\ a \in torn => config'[a].text = Broken
    BY <2>1, <2>2, KnownTexts DEF File
  <2>5. /\ cpa'[a] \in Process /\ cpa'[a].runs = cpa[a].runs
        /\ cpa'[a].event => cpa[a].event \/ cpa[a].runs
        /\ a \in torn /\ cpa[a].runs => cpa'[a].event
    BY <2>1, <2>3 DEF Process
  <2>6. a \notin torn => cpa'[a] = cpa[a]
    BY <2>1, <2>3 DEF Process
  <2> QED BY <2>2, <2>4, <2>5, <2>6
<1>6. ProjectionTypes'
  <2>1. config' \in [Cpa -> File] /\ cpa' \in [Cpa -> Process]
    BY <1>1, <1>5
  <2>2. lost' \subseteq Cpa /\ broken' \subseteq Cpa
    BY <1>1, <1>2, <1>4 DEF ProjectionInv, ProjectionTypes, StepsSound
  <2> QED BY <1>2, <1>3, <2>1, <2>2 DEF ProjectionInv, ProjectionTypes
<1>7. StepsSound' /\ FilesWritten' /\ CatalogsWritten' /\ MigrationSound'
  BY <1>2, <1>3 DEF StepsSound, FilesWritten, CatalogsWritten, AllWritten, MigrationSound
<1>8. WriteSound'
  BY <1>3, <1>4, <1>5, KnownTexts DEF ProjectionInv, WriteSound
<1>9. LoadsSound'
  <2> SUFFICES ASSUME NEW a \in Cpa
               PROVE  /\ config'[a].text = Broken => config'[a] = NoFile \/ a \in broken'
                      /\ cpa'[a].event => cpa'[a].runs
                      /\ cpa'[a].runs => mount'[a] # "none"
                      /\ mount'[a] = "directory" => config'[a] # NoFile
                      /\ mount'[a] = "directory" /\ cpa'[a].runs /\ ~cpa'[a].event =>
                            cpa'[a].text = config'[a].text /\ ~cpa'[a].tail
    BY DEF LoadsSound
  <2>1. config[a] # NoFile => config'[a] # NoFile
    BY <1>5, KnownTexts DEF ProjectionInv, ProjectionTypes, File, WriteSound
  <2>2. CASE a \in torn
    BY <1>1, <1>2, <1>5, <2>1, <2>2 DEF ProjectionInv, LoadsSound
  <2>3. CASE a \notin torn
    <3>1. config'[a] = config[a] /\ cpa'[a] = cpa[a] /\ mount' = mount
          /\ (a \in broken => a \in broken')
      BY <1>1, <1>2, <1>5, <2>3
    <3> QED BY <3>1 DEF ProjectionInv, LoadsSound
  <2> QED BY <2>2, <2>3
<1>10. LegacySound'
  BY <1>2, <1>3, <1>4, <1>5 DEF ProjectionInv, LegacySound
<1>11. ContainersKept'
  BY <1>2, <1>3, <1>5 DEF ProjectionInv, ContainersKept, MigrationSound
<1> QED BY <1>6, <1>7, <1>8, <1>9, <1>10, <1>11 DEF ProjectionInv

(* The migration, whose steps write no config.                             *)
LEMMA BeginMigrationKeeps ==
  ASSUME ProjectionInv, BeginMigration PROVE ProjectionInv'
<1>1. /\ admin.step = "done" /\ admin.op = "start" /\ AdminOnly /\ UNCHANGED behind
      /\ admin' = [admin EXCEPT !.step = "migrate", !.todo = rows.accounts]
  BY DEF BeginMigration, migrateFrame, AdminOnly
<1>2. admin' \in AdminState /\ admin'.step = "migrate" /\ admin'.op = "start"
      /\ admin'.todo = rows.accounts
  BY <1>1, RenderedNow DEF AdminState, ProjectionInv, ProjectionTypes
<1> QED BY <1>1, <1>2
    DEF AdminOnly, mountVars, ProjectionInv, ProjectionTypes, StepsSound, FilesWritten,
        CatalogsWritten, AllWritten, WriteSound, LoadsSound, LegacySound, MigrationSound,
        ContainersKept

LEMMA InspectMountKeeps ==
  ASSUME ProjectionInv, NEW a \in Cpa, InspectMount(a)
  PROVE  ProjectionInv'
<1>1. /\ admin.step = "migrate" /\ a \in admin.todo /\ AdminOnly /\ UNCHANGED behind
      /\ admin' = [admin EXCEPT !.todo = @ \ {a}, !.file = a,
                       !.step = CASE mount[a] = "none" -> "migrate"
                                  [] mount[a] = "legacy" -> "remove"
                                  [] mount[a] = "directory" -> "unlink"]
  BY DEF InspectMount, migrateFrame, AdminOnly
<1>2. /\ admin' \in AdminState /\ admin'.op = admin.op
      /\ admin'.todo = admin.todo \ {a} /\ admin'.file = a
      /\ \/ admin'.step = "migrate" /\ mount[a] = "none"
         \/ admin'.step = "remove" /\ mount[a] = "legacy"
         \/ admin'.step = "unlink" /\ mount[a] = "directory"
  <2>1. admin \in AdminState
    BY DEF ProjectionInv, ProjectionTypes
  <2>2. CASE mount[a] = "none"
    BY <1>1, <2>1, <2>2 DEF AdminState
  <2>3. CASE mount[a] = "legacy"
    BY <1>1, <2>1, <2>3 DEF AdminState
  <2>4. CASE mount[a] = "directory"
    BY <1>1, <2>1, <2>4 DEF AdminState
  <2>5. mount[a] = "none" \/ mount[a] = "legacy" \/ mount[a] = "directory"
    BY DEF ProjectionInv, ProjectionTypes
  <2> QED BY <2>2, <2>3, <2>4, <2>5
<1>3. ProjectionTypes' /\ StepsSound' /\ WriteSound' /\ LoadsSound' /\ ContainersKept'
  BY <1>1, <1>2
  DEF AdminOnly, mountVars, ProjectionInv, ProjectionTypes, StepsSound, WriteSound, LoadsSound,
      ContainersKept
<1>4. FilesWritten' /\ CatalogsWritten'
  BY <1>1, <1>2 DEF AdminOnly, ProjectionInv, FilesWritten, CatalogsWritten, AllWritten
<1>5. LegacySound' /\ MigrationSound'
  BY <1>1, <1>2
  DEF AdminOnly, mountVars, ProjectionInv, LegacySound, MigrationSound
<1> QED BY <1>3, <1>4, <1>5 DEF ProjectionInv

LEMMA ProbeReplacementKeeps ==
  ASSUME ProjectionInv, ProbeReplacement PROVE ProjectionInv'
<1>1. /\ admin.step = "probe" /\ AdminOnly /\ UNCHANGED behind
      /\ admin' = [admin EXCEPT !.step = "unlink"]
  BY DEF ProbeReplacement, migrateFrame, Goto, AdminOnly
<1>2. admin' \in AdminState /\ admin'.step = "unlink" /\ admin'.op = admin.op
      /\ admin'.todo = admin.todo /\ admin'.file = admin.file
  BY <1>1 DEF AdminState, ProjectionInv, ProjectionTypes
<1> QED BY <1>1, <1>2
    DEF AdminOnly, mountVars, ProjectionInv, ProjectionTypes, StepsSound, FilesWritten,
        CatalogsWritten, AllWritten, WriteSound, LoadsSound, LegacySound, MigrationSound,
        ContainersKept

LEMMA RemoveLegacyFileKeeps ==
  ASSUME ProjectionInv, RemoveLegacyFile PROVE ProjectionInv'
<1>1. /\ admin.step = "unlink" /\ legacyFile' = legacyFile \ {admin.file}
      /\ admin' = [admin EXCEPT !.step = "migrate"]
      /\ UNCHANGED <<rows, config, catalogs, behind, broken, cpa, mount, had, lost>>
  BY DEF RemoveLegacyFile, migrateFrame, Goto
<1>2. admin' \in AdminState /\ admin'.step = "migrate" /\ admin'.op = admin.op
      /\ admin'.todo = admin.todo /\ admin'.file = admin.file
  BY <1>1 DEF AdminState, ProjectionInv, ProjectionTypes
<1> QED BY <1>1, <1>2
    DEF mountVars, ProjectionInv, ProjectionTypes, StepsSound, FilesWritten,
        CatalogsWritten, AllWritten, WriteSound, LoadsSound, LegacySound, MigrationSound,
        ContainersKept

LEMMA EndMigrationKeeps ==
  ASSUME ProjectionInv, EndMigration PROVE ProjectionInv'
<1>1. /\ admin.step = "migrate" /\ admin.todo = {} /\ admin' = Idle /\ behind' = FALSE
      /\ UNCHANGED <<rows, config, catalogs, cpa, mountVars, broken>>
  BY DEF EndMigration
<1>2. admin' \in AdminState /\ admin'.step = "idle" /\ admin'.op = "none"
  BY <1>1, KnownTexts DEF Idle, AdminState
<1> QED BY <1>1, <1>2
    DEF mountVars, ProjectionInv, ProjectionTypes, StepsSound, FilesWritten,
        CatalogsWritten, AllWritten, WriteSound, LoadsSound, LegacySound, MigrationSound,
        ContainersKept

(* The container of the account at hand is replaced: its mount becomes "to" *)
(* and its CPA "process", and the migration goes on with "step".           *)
LEMMA ReplacedKeeps ==
  ASSUME ProjectionInv, admin.step \in Replacing,
         NEW to \in {"none", "legacy", "directory"}, NEW process \in Process,
         NEW step \in {"create", "probe", "unlink", "rebuild", "failed"},
         admin' = [admin EXCEPT !.step = step],
         mount' = [mount EXCEPT ![admin.file] = to],
         cpa' = [cpa EXCEPT ![admin.file] = process],
         UNCHANGED <<rows, config, catalogs, behind, broken, legacyFile, had, lost>>,
         step # "failed" => admin.step # "rebuild",
         step \in {"create", "rebuild"} => to = "none" /\ admin.step # "unlink",
         step \in {"probe", "unlink"} => to = "directory",
         step = "failed" => to # "none",
         step = "probe" => admin.step # "unlink",
         ~process.event, process.runs => to # "none",
         to = "legacy" => admin.step = "rebuild" /\ (process.runs => process = Legacy),
         to = "directory" /\ process.runs =>
             process.text = config[admin.file].text /\ ~process.tail,
         to # "none" => (had[admin.file] = "running" => process.runs)
  PROVE  ProjectionInv'
<1>1. admin' \in AdminState /\ admin'.step = step /\ admin'.op = "start" /\ admin.op = "start"
      /\ admin'.todo = admin.todo /\ admin'.file = admin.file
      /\ admin.file \in rows.accounts /\ admin.file \in Cpa
  BY DEF AdminState, ProjectionInv, ProjectionTypes, StepsSound
<1>2. /\ mount'[admin.file] = to /\ cpa'[admin.file] = process
      /\ \A b \in Cpa \ {admin.file} : mount'[b] = mount[b] /\ cpa'[b] = cpa[b]
      /\ mount' \in [Cpa -> {"none", "legacy", "directory"}] /\ cpa' \in [Cpa -> Process]
  BY <1>1 DEF ProjectionInv, ProjectionTypes
<1>3. config[admin.file] = Whole(Text(rows))
  BY <1>1 DEF ProjectionInv, FilesWritten, AllWritten
<1>4. ProjectionTypes' /\ StepsSound' /\ FilesWritten' /\ CatalogsWritten' /\ WriteSound'
  BY <1>1, <1>2
  DEF ProjectionInv, ProjectionTypes, StepsSound, FilesWritten, CatalogsWritten, AllWritten,
      WriteSound
<1>5. LoadsSound'
  BY <1>1, <1>2, <1>3, RenderedNow DEF ProjectionInv, LoadsSound
<1>6. LegacySound'
  BY <1>1, <1>2, <1>3 DEF ProjectionInv, LegacySound, MigrationSound, StepsSound
<1>7. MigrationSound' /\ ContainersKept'
  BY <1>1, <1>2 DEF ProjectionInv, MigrationSound, ContainersKept
<1> QED BY <1>4, <1>5, <1>6, <1>7 DEF ProjectionInv

(* The four steps that replace a container.                                *)
LEMMA ReplacementStepsKeep ==
  ASSUME ProjectionInv,
         RemoveLegacy \/ CreateReplacement \/ ReplacementFails \/ RebuildLegacy
  PROVE  ProjectionInv'
<1> DEFINE a == admin.file
<1>1. CASE RemoveLegacy
  <2>1. /\ admin.step = "remove" /\ admin' = [admin EXCEPT !.step = "create"]
        /\ mount' = [mount EXCEPT ![a] = "none"] /\ cpa' = [cpa EXCEPT ![a] = NotRunning]
        /\ UNCHANGED <<rows, config, catalogs, behind, broken, legacyFile, had, lost>>
    BY <1>1 DEF RemoveLegacy, Goto, migrateFrame
  <2> QED BY <2>1, KnownTexts, ReplacedKeeps
<1>2. CASE CreateReplacement
  <2> DEFINE process == IF WasRunning(a) THEN Started(a) ELSE NotRunning
             step == IF WasRunning(a) THEN "probe" ELSE "unlink"
  <2>1. /\ admin.step = "create" /\ admin' = [admin EXCEPT !.step = step]
        /\ mount' = [mount EXCEPT ![a] = "directory"] /\ cpa' = [cpa EXCEPT ![a] = process]
        /\ UNCHANGED <<rows, config, catalogs, behind, broken, legacyFile, had, lost>>
    BY <1>2 DEF CreateReplacement, Goto, migrateFrame
  <2>2. /\ a \in Cpa /\ config[a] \in File /\ ~config[a].tail
    BY <2>1 DEF ProjectionInv, ProjectionTypes, StepsSound, WriteSound
  <2>3. /\ Started(a) \in Process /\ Started(a).runs /\ ~Started(a).event
        /\ Started(a).text = config[a].text /\ ~Started(a).tail
    BY <2>2 DEF Started, NotRunning, Process, File
  <2>4. /\ process \in Process /\ ~process.event /\ (WasRunning(a) => process.runs)
        /\ process.runs => process.text = config[a].text /\ ~process.tail
    BY <2>3, KnownTexts
  <2>5. step \in {"probe", "unlink"}
    OBVIOUS
  <2> HIDE DEF process, step
  <2> QED BY <2>1, <2>4, <2>5, ReplacedKeeps DEF WasRunning
<1>3. CASE ReplacementFails
  <2>1. /\ admin.step \in {"create", "probe"} /\ admin' = [admin EXCEPT !.step = "rebuild"]
        /\ mount' = [mount EXCEPT ![a] = "none"] /\ cpa' = [cpa EXCEPT ![a] = NotRunning]
        /\ UNCHANGED <<rows, config, catalogs, behind, broken, legacyFile, had, lost>>
    BY <1>3 DEF ReplacementFails, Goto, migrateFrame
  <2> QED BY <2>1, KnownTexts, ReplacedKeeps
<1>4. CASE RebuildLegacy
  <2> DEFINE process == IF WasRunning(a) THEN Legacy ELSE NotRunning
  <2>1. /\ admin.step = "rebuild" /\ admin' = [admin EXCEPT !.step = "failed"]
        /\ mount' = [mount EXCEPT ![a] = "legacy"] /\ cpa' = [cpa EXCEPT ![a] = process]
        /\ UNCHANGED <<rows, config, catalogs, behind, broken, legacyFile, had, lost>>
    BY <1>4 DEF RebuildLegacy, Goto, migrateFrame
  <2>2. process \in Process /\ ~process.event /\ (process.runs => process = Legacy)
        /\ (WasRunning(a) => process.runs)
    BY KnownTexts
  <2> HIDE DEF process
  <2> QED BY <2>1, <2>2, ReplacedKeeps DEF WasRunning
<1> QED BY <1>1, <1>2, <1>3, <1>4

(* An account without a container is remembered as lost.                   *)
LEMMA RebuildFailsKeeps ==
  ASSUME ProjectionInv, RebuildFails PROVE ProjectionInv'
<1>1. /\ admin.step = "rebuild" /\ lost' = lost \cup {admin.file}
      /\ admin' = [admin EXCEPT !.step = "failed"]
      /\ UNCHANGED <<rows, config, catalogs, behind, broken, cpa, mount, legacyFile, had>>
  BY DEF RebuildFails, migrateFrame, Goto
<1>2. admin' \in AdminState /\ admin'.step = "failed" /\ admin'.op = admin.op
      /\ admin'.file = admin.file /\ admin.file \in Cpa
  BY <1>1 DEF AdminState, ProjectionInv, ProjectionTypes, StepsSound
<1> QED BY <1>1, <1>2
    DEF ProjectionInv, ProjectionTypes, StepsSound, FilesWritten,
        CatalogsWritten, AllWritten, WriteSound, LoadsSound, LegacySound, MigrationSound,
        ContainersKept

(* A CPA reads its config, at an event or when it is started.              *)
LEMMA LoadingKeeps ==
  ASSUME ProjectionInv, NEW a \in Cpa, Load(a) \/ StartCpa(a)
  PROVE  ProjectionInv'
<1>1. /\ cpa' = [cpa EXCEPT ![a] = Started(a)] /\ config[a] # NoFile
      /\ UNCHANGED <<rows, config, catalogs, admin, legacyFile, had, behind, broken>>
      /\ \/ cpa[a].event /\ UNCHANGED <<mount, lost>>
         \/ /\ admin.step = "idle" /\ lost' = lost \ {a}
            /\ mount' = [mount EXCEPT ![a] = "directory"]
  BY DEF Load, StartCpa, mountVars
<1>2. config[a] \in File /\ ~config[a].tail
  BY DEF ProjectionInv, ProjectionTypes, WriteSound
<1>3. /\ Started(a) \in Process /\ Started(a).runs /\ ~Started(a).event
      /\ Started(a).text = config[a].text /\ ~Started(a).tail
  BY <1>2 DEF Started, NotRunning, Process, File
<1>4. mount'[a] = "directory"
  BY <1>1 DEF ProjectionInv, ProjectionTypes, LoadsSound, LegacySound
<1>5. /\ cpa' \in [Cpa -> Process] /\ mount' \in [Cpa -> {"none", "legacy", "directory"}]
      /\ cpa'[a] = Started(a)
      /\ \A b \in Cpa \ {a} : cpa'[b] = cpa[b] /\ mount'[b] = mount[b]
      /\ \/ admin.step = "idle" /\ lost' = lost \ {a}
         \/ mount[a] = "directory" /\ UNCHANGED <<mount, lost>>
  BY <1>1, <1>3, <1>4 DEF ProjectionInv, ProjectionTypes
<1>6. ProjectionTypes' /\ StepsSound' /\ FilesWritten' /\ CatalogsWritten' /\ WriteSound'
  BY <1>1, <1>5
  DEF ProjectionInv, ProjectionTypes, StepsSound, FilesWritten, CatalogsWritten, AllWritten,
      WriteSound
<1>7. LoadsSound' /\ LegacySound'
  BY <1>1, <1>3, <1>4, <1>5 DEF ProjectionInv, LoadsSound, LegacySound
<1>8. MigrationSound' /\ ContainersKept'
  BY <1>1, <1>3, <1>4, <1>5 DEF ProjectionInv, MigrationSound, ContainersKept
<1> QED BY <1>6, <1>7, <1>8 DEF ProjectionInv

(* The invariant holds in every reachable state.                           *)
THEOREM ProjectionInductive ==
  ProjectionSpec => []ProjectionInv
<1>1. ProjectionInit => ProjectionInv
  <2> SUFFICES ASSUME ProjectionInit PROVE ProjectionInv
    OBVIOUS
  <2>1. admin \in AdminState /\ admin.step = "down" /\ admin.op = "none"
    BY KnownTexts DEF ProjectionInit, Down, Idle, AdminState
  <2>2. ProjectionTypes
    BY <2>1, KnownTexts DEF ProjectionInit, ProjectionTypes
  <2>3. \A a \in Cpa : config[a] = NoFile
    BY DEF ProjectionInit
  <2> QED BY <2>1, <2>2, <2>3, KnownTexts
      DEF ProjectionInit, ProjectionInv, StepsSound, FilesWritten, CatalogsWritten, AllWritten,
          WriteSound, LoadsSound, LegacySound, MigrationSound, ContainersKept
<1>2. ProjectionInv /\ [ProjectionNext]_projectionVars => ProjectionInv'
  <2> SUFFICES ASSUME ProjectionInv, [ProjectionNext]_projectionVars PROVE ProjectionInv'
    OBVIOUS
  <2>1. CASE UNCHANGED projectionVars
    BY <2>1
    DEF projectionVars, mountVars, ProjectionInv, ProjectionTypes, StepsSound, FilesWritten,
        CatalogsWritten, AllWritten, WriteSound, LoadsSound, LegacySound, MigrationSound,
        ContainersKept
  <2>2. CASE Writing
    BY <2>2, WriteAtomicKeeps, WriteAtKeeps, TruncateKeeps, SyncKeeps, WriteFailsKeeps,
       RestoreKeeps, TruncateBackKeeps, GivenUpKeeps, WriteCatalogsKeeps, OpenKeeps DEF Writing
  <2>3. CASE Migration
    BY <2>3, BeginMigrationKeeps, ReplacementStepsKeep, ProbeReplacementKeeps, RebuildFailsKeeps,
       RemoveLegacyFileKeeps, GivenUpKeeps, EndMigrationKeeps, InspectMountKeeps DEF Migration
  <2> QED BY <2>1, <2>2, <2>3, BootKeeps, ChangeKeeps, RenderKeeps, RefuseKeeps, DoneKeeps,
             DieKeeps, GivenUpKeeps, LoadingKeeps DEF ProjectionNext
<1> QED BY <1>1, <1>2, PTL DEF ProjectionSpec

(* Whatever fails on the way: an operation that is over leaves files that  *)
(* say what the rows say, no CPA reads a mixture of two texts, and every   *)
(* account keeps the container it came with (Render, writeAccountConfig,   *)
(* MigrateLegacyConfigMounts).                                             *)
THEOREM ProjectionIsSound ==
  ProjectionSpec => []ProjectionSound
<1>1. ProjectionInv => ProjectionSound
  <2> SUFFICES ASSUME ProjectionInv PROVE ProjectionSound
    OBVIOUS
  <2>1. FilesAgree
    <3> SUFFICES ASSUME admin.step = "idle", ~behind PROVE FilesAgree
      BY DEF FilesAgree
    <3>1. catalogs = rows.accounts
      BY DEF ProjectionInv, CatalogsWritten, AllWritten
    <3>2. ASSUME NEW a \in rows.accounts
          PROVE  /\ config[a] = Whole(Text(rows))
                 /\ cpa[a].runs /\ ~cpa[a].event => cpa[a].text = Text(rows)
      <4>1. a \in Cpa /\ config[a] = Whole(Text(rows))
        BY RenderedNow DEF ProjectionInv, FilesWritten, AllWritten
      <4>2. mount[a] # "legacy"
        BY <4>1 DEF ProjectionInv, LegacySound, StepsSound
      <4>3. cpa[a].runs => mount[a] = "directory"
        BY <4>1, <4>2 DEF ProjectionInv, ProjectionTypes, LoadsSound
      <4> QED BY <4>1, <4>3, RenderedNow DEF ProjectionInv, LoadsSound
    <3> QED BY <3>1, <3>2 DEF FilesAgree
  <2>2. WholeConfigsRead
    <3> SUFFICES ASSUME NEW a \in Cpa, cpa[a].runs, ~cpa[a].event
                 PROVE  ~cpa[a].tail /\ (cpa[a].text = Broken => a \in broken)
      BY DEF WholeConfigsRead
    <3>1. CASE mount[a] = "legacy"
      BY <3>1, KnownTexts DEF ProjectionInv, LegacySound
    <3>2. CASE mount[a] = "directory"
      BY <3>2 DEF ProjectionInv, LoadsSound
    <3> QED BY <3>1, <3>2 DEF ProjectionInv, ProjectionTypes, LoadsSound
  <2>3. MountsMigrated
    BY RenderedNow DEF MountsMigrated, ProjectionInv, LegacySound, ContainersKept, StepsSound
  <2> QED BY <2>1, <2>2, <2>3 DEF ProjectionSound
<1> QED BY <1>1, ProjectionInductive, PTL
=============================================================================
