-------------------------- MODULE AssetStore_proofs --------------------------
(***************************************************************************)
(* Proofs about AssetStore: the types, who answers for a wrong file, that  *)
(* an accepted asset opens as itself, and what the storage counter counts. *)
(*                                                                         *)
(* The first two theorems about files need hypotheses, stated where they   *)
(* are used: no power failure undoes a rename, and one identifier names    *)
(* one repository.  The types and the counter need neither.                *)
(***************************************************************************)
EXTENDS AssetStore, FiniteSetTheorems, WellFoundedInduction, TLAPS

-----------------------------------------------------------------------------
(***************************************************************************)
(* Sums.  SumFunctionOnSet folds over a finite set, taking out one fixed   *)
(* element of what is left at a time.                                      *)
(***************************************************************************)
Chosen(s) == CHOOSE x \in s : TRUE

IsSum(w, D, g) ==
  g = [s \in D |-> IF s = {} THEN 0 ELSE w[Chosen(s)] + g[s \ {Chosen(s)}]]

LEMMA SmallestSubset ==
  ASSUME NEW S, IsFiniteSet(S), NEW Bad \in SUBSET SUBSET S, Bad # {}
  PROVE  \E T \in Bad : \A U \in Bad : U \subseteq T => U = T
<1>1. Bad \subseteq FiniteSubsetsOf(S)
  BY FS_Subset DEF FiniteSubsetsOf
<1>2. \E T \in Bad : \A U \in Bad : <<U, T>> \notin StrictSubsetOrdering(S)
  BY <1>1, FS_StrictSubsetOrderingWellFounded, WFMin
<1> QED BY <1>2 DEF StrictSubsetOrdering

AgreeBelow(T, f, g) == \A s \in SUBSET T : f[s] = g[s]

LEMMA SumUnique ==
  ASSUME NEW w, NEW S, IsFiniteSet(S), NEW T \in SUBSET S, NEW f, NEW g,
         IsSum(w, SUBSET S, f), IsSum(w, SUBSET T, g)
  PROVE  AgreeBelow(T, f, g)
<1> DEFINE Bad == {s \in SUBSET T : f[s] # g[s]}
<1> SUFFICES ASSUME Bad # {}
             PROVE  FALSE
  BY DEF AgreeBelow
<1>1. IsFiniteSet(T) /\ Bad \in SUBSET SUBSET T
  BY FS_Subset
<1>2. PICK s \in Bad : \A r \in Bad : r \subseteq s => r = s
  <2> HIDE DEF Bad
  <2> QED BY <1>1, SmallestSubset
<1>3. CASE s = {}
  BY <1>2, <1>3 DEF IsSum
<1>4. CASE s # {}
  <2>1. Chosen(s) \in s
    BY <1>4 DEF Chosen
  <2> DEFINE r == s \ {Chosen(s)}
  <2>2. f[s] = w[Chosen(s)] + f[r] /\ g[s] = w[Chosen(s)] + g[r]
    BY <1>4 DEF IsSum
  <2>3. f[r] = g[r]
    BY <1>2, <2>1
  <2> QED BY <1>2, <2>2, <2>3
<1> QED BY <1>3, <1>4

\* The form in which the proofs below use it.
LEMMA SumsAgree ==
  ASSUME NEW w, NEW S, IsFiniteSet(S), NEW T, T \subseteq S, NEW f, NEW g,
         IsSum(w, SUBSET S, f), IsSum(w, SUBSET T, g)
  PROVE  f[T] = g[T]
<1>1. T \in SUBSET S
  OBVIOUS
<1>2. AgreeBelow(T, f, g)
  BY <1>1, SumUnique
<1> QED BY <1>2 DEF AgreeBelow

LEMMA SumExists ==
  ASSUME NEW w, NEW S, IsFiniteSet(S)
  PROVE  \E f : IsSum(w, SUBSET S, f)
<1> DEFINE Has(T) == \E f : IsSum(w, SUBSET T, f)
           V(r) == (CHOOSE f : IsSum(w, SUBSET r, f))[r]
           Bad == {T \in SUBSET S : ~Has(T)}
<1> SUFFICES ASSUME Bad # {}
             PROVE  FALSE
  OBVIOUS
<1>1. PICK T \in Bad : \A U \in Bad : U \subseteq T => U = T
  <2>1. Bad \in SUBSET SUBSET S
    OBVIOUS
  <2> HIDE DEF Bad
  <2> QED BY <2>1, SmallestSubset
<1> DEFINE g == [s \in SUBSET T |-> IF s = {} THEN 0
                                    ELSE w[Chosen(s)] + V(s \ {Chosen(s)})]
<1>2. ASSUME NEW r \in SUBSET T, r # T
      PROVE  V(r) = g[r]
  <2> DEFINE f == CHOOSE f : IsSum(w, SUBSET r, f)
             q == r \ {Chosen(r)}
             h == CHOOSE h : IsSum(w, SUBSET q, h)
  <2>1. IsSum(w, SUBSET r, f)
    BY <1>1, <1>2
  <2>2. CASE r = {}
    BY <2>1, <2>2 DEF IsSum
  <2>3. CASE r # {}
    <3>1. Chosen(r) \in r
      BY <2>3 DEF Chosen
    <3>2. IsSum(w, SUBSET q, h)
      <4>1. q \in SUBSET S /\ q \subseteq T /\ q # T
        BY <3>1
      <4> QED BY <1>1, <4>1
    <3>3. f[q] = h[q]
      <4>1. IsFiniteSet(r) /\ q \subseteq r
        BY FS_Subset
      <4> HIDE DEF f, h, q, g, V, Has, Bad
      <4> QED BY <2>1, <3>2, <4>1, SumsAgree
    <3>4. f[r] = w[Chosen(r)] + f[q]
      <4> HIDE DEF f
      <4> QED BY <2>1, <2>3 DEF IsSum
    <3>5. g[r] = w[Chosen(r)] + V(q)
      BY <2>3
    <3> QED BY <3>3, <3>4, <3>5
  <2> QED BY <2>2, <2>3
<1>3. IsSum(w, SUBSET T, g)
  <2>1. ASSUME NEW s \in SUBSET T, s # {}
        PROVE  V(s \ {Chosen(s)}) = g[s \ {Chosen(s)}]
    <3>1. Chosen(s) \in s
      BY <2>1 DEF Chosen
    <3>2. s \ {Chosen(s)} \in SUBSET T /\ s \ {Chosen(s)} # T
      BY <3>1
    <3> HIDE DEF g, V
    <3> QED BY <1>2, <3>2
  <2>2. \A s \in SUBSET T :
          g[s] = IF s = {} THEN 0 ELSE w[Chosen(s)] + g[s \ {Chosen(s)}]
    <3> SUFFICES ASSUME NEW s \in SUBSET T
                 PROVE  g[s] = IF s = {} THEN 0 ELSE w[Chosen(s)] + g[s \ {Chosen(s)}]
      OBVIOUS
    <3>1. g[s] = IF s = {} THEN 0 ELSE w[Chosen(s)] + V(s \ {Chosen(s)})
      OBVIOUS
    <3> HIDE DEF g, V
    <3> QED BY <2>1, <3>1
  <2>3. DOMAIN g = SUBSET T /\ g = [s \in DOMAIN g |-> g[s]]
    OBVIOUS
  <2> HIDE DEF g
  <2> QED BY <2>2, <2>3 DEF IsSum
<1> QED BY <1>1, <1>3

LEMMA SumStep ==
  ASSUME NEW w, NEW S, IsFiniteSet(S)
  PROVE  SumFunctionOnSet(w, S) =
           IF S = {} THEN 0
           ELSE w[Chosen(S)] + SumFunctionOnSet(w, S \ {Chosen(S)})
<1> DEFINE It(T) == CHOOSE g : IsSum(w, SUBSET T, g)
           rest == S \ {Chosen(S)}
<1>1. \A T : SumFunctionOnSet(w, T) = It(T)[T]
  BY DEF SumFunctionOnSet, FoldFunctionOnSet, MapThenFoldSet, IsSum, Chosen
<1>2. IsFiniteSet(rest) /\ rest \in SUBSET S
  BY FS_Subset
<1>3. IsSum(w, SUBSET S, It(S)) /\ IsSum(w, SUBSET rest, It(rest))
  <2> HIDE DEF rest
  <2> QED BY <1>2, SumExists
<1>4. It(S)[rest] = It(rest)[rest]
  <2> DEFINE whole == It(S)
             part == It(rest)
  <2>1. IsSum(w, SUBSET S, whole) /\ IsSum(w, SUBSET rest, part)
    BY <1>3
  <2>2. rest \subseteq S
    BY <1>2
  <2>3. whole[rest] = part[rest]
    <3> HIDE DEF whole, part, rest, It
    <3> QED BY <2>1, <2>2, SumsAgree
  <2> QED BY <2>3
<1>5. It(S)[S] = IF S = {} THEN 0 ELSE w[Chosen(S)] + It(S)[rest]
  <2> HIDE DEF It
  <2> QED BY <1>3 DEF IsSum
<1> HIDE DEF It
<1> QED BY <1>1, <1>4, <1>5

LEMMA SumInNat ==
  ASSUME NEW S, IsFiniteSet(S), NEW w \in [S -> Nat]
  PROVE  \A T \in SUBSET S : SumFunctionOnSet(w, T) \in Nat
<1> DEFINE Bad == {T \in SUBSET S : SumFunctionOnSet(w, T) \notin Nat}
<1> SUFFICES ASSUME Bad # {}
             PROVE  FALSE
  OBVIOUS
<1>1. PICK T \in Bad : \A U \in Bad : U \subseteq T => U = T
  <2>1. Bad \in SUBSET SUBSET S
    OBVIOUS
  <2> HIDE DEF Bad
  <2> QED BY <2>1, SmallestSubset
<1> DEFINE U == T \ {Chosen(T)}
<1>2. SumFunctionOnSet(w, T) =
        IF T = {} THEN 0 ELSE w[Chosen(T)] + SumFunctionOnSet(w, U)
  BY FS_Subset, SumStep
<1>3. T # {} => Chosen(T) \in T /\ w[Chosen(T)] \in Nat
  BY DEF Chosen
<1>4. T # {} => SumFunctionOnSet(w, U) \in Nat
  BY <1>1, <1>3
<1> QED BY <1>2, <1>3, <1>4

LEMMA SumOfZeros ==
  ASSUME NEW S, IsFiniteSet(S), NEW w \in [S -> Nat], \A x \in S : w[x] = 0
  PROVE  SumFunctionOnSet(w, S) = 0
<1> DEFINE Bad == {T \in SUBSET S : SumFunctionOnSet(w, T) # 0}
<1> SUFFICES ASSUME Bad # {}
             PROVE  FALSE
  OBVIOUS
<1>1. PICK T \in Bad : \A U \in Bad : U \subseteq T => U = T
  <2>1. Bad \in SUBSET SUBSET S
    OBVIOUS
  <2> HIDE DEF Bad
  <2> QED BY <2>1, SmallestSubset
<1> DEFINE U == T \ {Chosen(T)}
<1>2. SumFunctionOnSet(w, T) =
        IF T = {} THEN 0 ELSE w[Chosen(T)] + SumFunctionOnSet(w, U)
  BY FS_Subset, SumStep
<1>3. T # {} => Chosen(T) \in T
  BY DEF Chosen
<1>4. T # {} => SumFunctionOnSet(w, U) = 0
  BY <1>1, <1>3
<1> QED BY <1>2, <1>3, <1>4

\* Changing one term changes the sum by the difference.
LEMMA SumUpdate ==
  ASSUME NEW S, IsFiniteSet(S), NEW w \in [S -> Nat], NEW v \in [S -> Nat],
         NEW k \in S, \A x \in S \ {k} : v[x] = w[x]
  PROVE  \A T \in SUBSET S :
           SumFunctionOnSet(v, T) =
             SumFunctionOnSet(w, T) + IF k \in T THEN v[k] - w[k] ELSE 0
<1> DEFINE A(T) == SumFunctionOnSet(v, T)
           B(T) == SumFunctionOnSet(w, T)
           D(T) == IF k \in T THEN v[k] - w[k] ELSE 0
           Bad == {T \in SUBSET S : A(T) # B(T) + D(T)}
<1> SUFFICES ASSUME Bad # {}
             PROVE  FALSE
  OBVIOUS
<1>1. PICK T \in Bad : \A U \in Bad : U \subseteq T => U = T
  <2>1. Bad \in SUBSET SUBSET S
    OBVIOUS
  <2> HIDE DEF Bad
  <2> QED BY <2>1, SmallestSubset
<1> DEFINE x == Chosen(T)
           U == T \ {x}
<1>2. /\ A(T) = IF T = {} THEN 0 ELSE v[x] + A(U)
      /\ B(T) = IF T = {} THEN 0 ELSE w[x] + B(U)
  BY FS_Subset, SumStep
<1>3. A(U) \in Nat /\ B(U) \in Nat /\ v[k] \in Nat /\ w[k] \in Nat
  BY SumInNat
<1>4. T # {} => x \in T /\ v[x] \in Nat /\ w[x] \in Nat
  BY DEF Chosen
<1>5. T # {} => A(U) = B(U) + D(U)
  BY <1>1, <1>4
<1>6. T # {} /\ x # k => v[x] = w[x] /\ (k \in T <=> k \in U)
  BY <1>4
<1>7. A(T) # B(T) + D(T)
  OBVIOUS
<1> HIDE DEF A, B, x, U
<1>8. CASE T = {}
  BY <1>2, <1>7, <1>8
<1>9. CASE T # {} /\ x = k
  BY <1>2, <1>3, <1>4, <1>5, <1>7, <1>9 DEF U
<1>10. CASE T # {} /\ x # k
  BY <1>2, <1>3, <1>4, <1>5, <1>6, <1>7, <1>10
<1> QED BY <1>8, <1>9, <1>10
-----------------------------------------------------------------------------
(***************************************************************************)
(* Types, and how a step changes the requests.                             *)
(***************************************************************************)

InFlight == Phase \ (Ended \cup {"idle"})

\* Of a request only the phase and the reported length ever change.
Progress(u) ==
  /\ up' \in [Upload -> Request]
  /\ \A v \in Upload \ {u} : up'[v] = up[v]
  /\ up'[u].addr = up[u].addr /\ up'[u].body = up[u].body

LEMMA GoToProgress ==
  ASSUME AssetTypeOK, NEW u \in Upload, NEW p \in Phase, GoTo(u, p)
  PROVE  Progress(u) /\ up'[u].pc = p /\ up'[u].written = up[u].written
<1>1. up[u] \in Request
  BY DEF AssetTypeOK
<1>2. up'[u] = [up[u] EXCEPT !.pc = p] /\ [up[u] EXCEPT !.pc = p] \in Request
  BY <1>1 DEF GoTo, AssetTypeOK, Request
<1>3. up' = [up EXCEPT ![u] = [up[u] EXCEPT !.pc = p]]
  BY DEF GoTo, AssetTypeOK
<1>4. up' \in [Upload -> Request]
  <2> HIDE DEF Request
  <2> QED BY <1>2, <1>3 DEF AssetTypeOK
<1> QED BY <1>1, <1>2, <1>3, <1>4 DEF Progress, AssetTypeOK, Request

LEMMA WriteProgress ==
  ASSUME AssetTypeOK, NEW u \in Upload, NEW p \in Phase, NEW n \in Nat,
         up' = [up EXCEPT ![u].pc = p, ![u].written = n]
  PROVE  Progress(u) /\ up'[u].pc = p /\ up'[u].written = n
<1>1. up[u] \in Request
  BY DEF AssetTypeOK
<1> DEFINE r == [[up[u] EXCEPT !.pc = p] EXCEPT !.written = n]
<1>2. r \in Request /\ r.pc = p /\ r.written = n /\ r.addr = up[u].addr /\ r.body = up[u].body
  BY <1>1 DEF Request
<1>3. up' = [up EXCEPT ![u] = r] /\ up \in [Upload -> Request]
  BY DEF AssetTypeOK
<1> HIDE DEF r
<1>4. up' \in [Upload -> Request] /\ up'[u] = r /\ \A v \in Upload \ {u} : up'[v] = up[v]
  <2> HIDE DEF Request
  <2>1. up' \in [Upload -> Request]
    BY <1>2, <1>3
  <2>2. up'[u] = r
    BY <1>3
  <2>3. \A v \in Upload \ {u} : up'[v] = up[v]
    BY <1>3
  <2> QED BY <2>1, <2>2, <2>3
<1> QED BY <1>2, <1>4 DEF Progress

LEMMA HashIsBlob ==
  ASSUME AssetTypeOK, NEW u \in Upload
  PROVE  /\ up[u].addr \in Address /\ up[u].body \in Blob
         /\ up[u].pc \in Phase /\ up[u].written \in Nat
         /\ HashOf(up[u].addr) \in Blob /\ KeyOf(up[u].addr) \in Key
         /\ Size[up[u].body] \in Nat
BY AssetAssumption DEF AssetTypeOK, Request, Address, HashOf, KeyOf, Key

\* A crash ends the requests in flight and changes nothing else of them.
LEMMA CrashProgress ==
  ASSUME AssetTypeOK, Crash
  PROVE  /\ up' \in [Upload -> Request]
         /\ \A u \in Upload :
              /\ up'[u].addr = up[u].addr /\ up'[u].body = up[u].body
              /\ up'[u].written = up[u].written
              /\ up'[u].pc = IF up[u].pc \in Ended \cup {"idle"} THEN up[u].pc
                             ELSE IF up[u].pc \in {"renamed", "synced"} THEN "abandoned"
                             ELSE IF up[u].pc = "registered" THEN "unanswered" ELSE "lost"
<1> DEFINE p(u) == IF up[u].pc \in {"renamed", "synced"} THEN "abandoned"
                   ELSE IF up[u].pc = "registered" THEN "unanswered" ELSE "lost"
           r(u) == IF up[u].pc \in Ended \cup {"idle"} THEN up[u]
                   ELSE [up[u] EXCEPT !.pc = p(u)]
<1>1. up' = [u \in Upload |-> r(u)]
  BY DEF Crash
<1>2. \A u \in Upload : up[u] \in Request
  BY DEF AssetTypeOK
<1>3. \A u \in Upload : r(u) \in Request
  BY <1>2 DEF Request, Phase, Ended
<1>4. \A u \in Upload :
        /\ r(u).addr = up[u].addr /\ r(u).body = up[u].body /\ r(u).written = up[u].written
        /\ r(u).pc = IF up[u].pc \in Ended \cup {"idle"} THEN up[u].pc ELSE p(u)
  BY <1>2 DEF Request
<1> HIDE DEF r
<1> QED BY <1>1, <1>3, <1>4

LEMMA TypeInit ==
  Init => AssetTypeOK
<1> SUFFICES ASSUME Init
             PROVE  AssetTypeOK
  OBVIOUS
<1>1. up \in [Upload -> Request]
  <2>1. [pc : {"idle"}, addr : Address, body : Blob, sized : BOOLEAN, written : {0}]
          \subseteq Request
    BY DEF Request, Phase
  <2> QED BY <2>1 DEF Init
<1> QED BY <1>1 DEF Init, AssetTypeOK, NoRow

LEMMA TypeStep ==
  AssetTypeOK /\ [Next]_vars => AssetTypeOK'
<1> SUFFICES ASSUME AssetTypeOK, [Next]_vars
             PROVE  AssetTypeOK'
  OBVIOUS
<1>1. ASSUME NEW u \in Upload, UploadStep(u)
      PROVE  AssetTypeOK'
  <2>0. up[u].written \in Nat /\ up[u].addr \in Address /\ up[u].body \in Blob
    BY HashIsBlob
  <2>1. ASSUME tenantVars' = tenantVars, fileVars' = fileVars,
               NEW p \in Phase, GoTo(u, p)
        PROVE  AssetTypeOK'
    BY <2>1, GoToProgress DEF AssetTypeOK, tenantVars, fileVars, Progress
  <2>2. CASE Negotiate(u)
    BY <2>1, <2>2 DEF Negotiate, Phase, Ended
  <2>3. CASE SendUpload(u)
    BY <2>1, <2>3 DEF SendUpload, Phase, Ended
  <2>4. CASE AdmitExists(u)
    BY <2>1, <2>4 DEF AdmitExists, Admitted, Phase, Ended
  <2>5. CASE AdmitQuota(u)
    BY <2>1, <2>5 DEF AdmitQuota, Admitted, Phase, Ended
  <2>6. CASE FindFile(u)
    <3>1. CASE file[up[u].addr] = NoBlob
      <4>1. GoTo(u, "copy") /\ UNCHANGED <<tenantVars, fileVars>>
        BY <2>6, <3>1 DEF FindFile, GoTo
      <4> QED BY <2>1, <4>1 DEF Phase
    <3>2. CASE file[up[u].addr] # NoBlob
      <4> DEFINE n == Size[file[up[u].addr]]
      <4>1. n \in Nat
        BY <2>0, <3>2, AssetAssumption DEF AssetTypeOK
      <4>2. up' = [up EXCEPT ![u].pc = "register", ![u].written = n]
        BY <2>6, <3>2 DEF FindFile
      <4>3. Progress(u)
        <5> HIDE DEF n
        <5> QED BY <4>1, <4>2, WriteProgress DEF Phase
      <4> QED BY <2>6, <4>3 DEF FindFile, AssetTypeOK, tenantVars, fileVars, Progress
    <3> QED BY <3>1, <3>2
  <2>7. CASE CopyFails(u)
    BY <2>1, <2>7 DEF CopyFails, Phase, Ended
  <2>8. CASE RenameIntoPlace(u)
    <3>1. Progress(u)
      BY <2>8, GoToProgress DEF RenameIntoPlace, Phase
    <3> QED BY <2>0, <2>8, <3>1 DEF RenameIntoPlace, AssetTypeOK, tenantVars, Progress
  <2>9. CASE SyncDir(u)
    <3>1. Progress(u)
      BY <2>9, GoToProgress DEF SyncDir, Phase
    <3> QED BY <2>0, <2>9, <3>1 DEF SyncDir, AssetTypeOK, tenantVars, Progress
  <2>10. CASE SyncDirFails(u)
    BY <2>1, <2>10 DEF SyncDirFails, Phase, Ended
  <2>11. CASE VerifyHash(u)
    <3>1. CASE HashMatches(u)
      <4>1. Progress(u)
        BY <2>11, <3>1, HashIsBlob, WriteProgress DEF VerifyHash, Phase
      <4> QED BY <2>11, <3>1, <4>1 DEF VerifyHash, AssetTypeOK, tenantVars, Progress
    <3>2. CASE ~HashMatches(u)
      <4>1. Progress(u)
        BY <2>11, <3>2, GoToProgress DEF VerifyHash, Phase, Ended
      <4> QED BY <2>0, <2>11, <3>2, <4>1 DEF VerifyHash, AssetTypeOK, tenantVars, Progress
    <3> QED BY <3>1, <3>2
  <2>12. CASE RemoveFails(u)
    BY <2>1, <2>12 DEF RemoveFails, Phase, Ended
  <2>13. CASE RegisterExists(u)
    BY <2>1, <2>13 DEF RegisterExists, Phase, Ended
  <2>14. CASE RegisterCharge(u)
    <3>1. \E p \in Phase : GoTo(u, p)
      BY <2>14 DEF RegisterCharge, Phase, Ended
    <3>2. Progress(u)
      BY <3>1, GoToProgress
    <3>3. /\ row' \in [Key -> Nat \cup {NoRow}] /\ usedBytes' \in Nat
          /\ raced' \subseteq Upload
      BY <2>0, <2>14 DEF RegisterCharge, InsertRow, AssetTypeOK
    <3> QED BY <2>14, <3>2, <3>3 DEF RegisterCharge, AssetTypeOK, fileVars, Progress
  <2>15. CASE RegisterFails(u) \/ Answer(u) \/ AnswerLost(u)
    BY <2>1, <2>15 DEF RegisterFails, Answer, AnswerLost, Phase, Ended
  <2> QED BY <1>1, <2>2, <2>3, <2>4, <2>5, <2>6, <2>7, <2>8, <2>9, <2>10, <2>11,
             <2>12, <2>13, <2>14, <2>15 DEF UploadStep
<1>2. CASE SetTenantStorageQuota
  BY <1>2 DEF SetTenantStorageQuota, AssetTypeOK, fileVars
<1>3. CASE Crash
  BY <1>3, CrashProgress DEF Crash, AfterPowerLoss, AssetTypeOK, tenantVars, fileVars
<1>4. CASE UNCHANGED vars
  BY <1>4 DEF vars, AssetTypeOK
<1> QED BY <1>1, <1>2, <1>3, <1>4 DEF Next

\* Rows, files, the counter and the requests keep their types: in
\* particular the counter of a tenant never falls below zero.
THEOREM AssetTypesHold ==
  Spec => []AssetTypeOK
<1> QED BY TypeInit, TypeStep, PTL DEF Spec

-----------------------------------------------------------------------------
(***************************************************************************)
(* The quota.                                                              *)
(***************************************************************************)

\* The counter changes in RegisterCharge alone, under the lock of the tenant
\* row, and only to a value the quota of that moment allows: what an earlier
\* admission said does not matter.
THEOREM ChargesHold ==
  Spec => ChargesWithinQuota
<1> DEFINE Allowed == usedBytes' # usedBytes => quotaBytes = 0 \/ usedBytes' <= quotaBytes
<1>1. AssetTypeOK /\ [Next]_vars => [Allowed]_vars
  <2> SUFFICES ASSUME AssetTypeOK, [Next]_vars
               PROVE  [Allowed]_vars
    OBVIOUS
  <2>1. ASSUME NEW u \in Upload, RegisterCharge(u)
        PROVE  Allowed
    <3>1. quotaBytes \in Nat /\ usedBytes \in Nat /\ up[u].written \in Nat
      BY HashIsBlob, AssetAssumption DEF AssetTypeOK
    <3> QED BY <2>1, <3>1 DEF RegisterCharge, OverQuota
  <2>2. ASSUME NEW u \in Upload, UploadStep(u), ~RegisterCharge(u)
        PROVE  usedBytes' = usedBytes
    BY <2>2 DEF UploadStep, Negotiate, SendUpload, AdmitExists, AdmitQuota, FindFile,
         CopyFails, RenameIntoPlace, SyncDir, SyncDirFails, VerifyHash, RemoveFails,
         RegisterExists, RegisterFails, Answer, AnswerLost, tenantVars
  <2> QED BY <2>1, <2>2 DEF Next, SetTenantStorageQuota, Crash, tenantVars, vars
<1> QED BY <1>1, AssetTypesHold, PTL DEF Spec, ChargesWithinQuota

-----------------------------------------------------------------------------
(***************************************************************************)
(* Who answers for a wrong file.                                           *)
(***************************************************************************)

Answers(u, a) ==
  /\ up[u].addr = a
  /\ up[u].body = file[a]
  /\ up[u].pc \in {"renamed", "synced", "abandoned"}

\* A step of u that leaves the files alone, and does not take u out of the
\* phases between its rename and its verification unless u sent the asset
\* itself, leaves nobody's file unanswered for.
LEMMA WriterStays ==
  ASSUME AssetTypeOK, BadFileHasWriter, NEW u \in Upload, Progress(u),
         file' = file,
         \/ up[u].pc \notin {"renamed", "synced", "abandoned"}
         \/ up'[u].pc \in {"renamed", "synced", "abandoned"}
         \/ HashMatches(u)
  PROVE  BadFileHasWriter'
<1> SUFFICES ASSUME NEW a \in Address, file[a] \notin {NoBlob, HashOf(a)}
             PROVE  \E v \in Upload : Answers(v, a)'
  BY DEF BadFileHasWriter, Answers, HashOf
<1>1. PICK v \in Upload : Answers(v, a)
  BY DEF BadFileHasWriter, Answers
<1>2. Answers(v, a)'
  BY <1>1 DEF Progress, HashMatches, Answers
<1> QED BY <1>2

LEMMA WriterStep ==
  ASSUME ~PowerMayFail
  PROVE  AssetTypeOK /\ BadFileHasWriter /\ [Next]_vars => BadFileHasWriter'
<1> SUFFICES ASSUME AssetTypeOK, BadFileHasWriter, [Next]_vars
             PROVE  BadFileHasWriter'
  OBVIOUS
<1> DEFINE Writing == {"renamed", "synced", "abandoned"}
<1>1. ASSUME NEW u \in Upload, UploadStep(u)
      PROVE  BadFileHasWriter'
  <2>1. ASSUME file' = file, NEW p \in Phase, GoTo(u, p),
               up[u].pc \notin Writing \/ p \in Writing
        PROVE  BadFileHasWriter'
    BY <2>1, GoToProgress, WriterStays
  <2>2. CASE Negotiate(u) \/ SendUpload(u) \/ AdmitExists(u) \/ AdmitQuota(u) \/ CopyFails(u)
             \/ RegisterExists(u) \/ RegisterFails(u) \/ Answer(u) \/ AnswerLost(u)
    <3>1. up[u].pc \notin Writing /\ file' = file /\ \E p \in Phase : GoTo(u, p)
      BY <2>2 DEF Negotiate, SendUpload, AdmitExists, AdmitQuota, CopyFails, Admitted,
           RegisterExists, RegisterFails, Answer, AnswerLost, At, fileVars, Phase, Ended
    <3> QED BY <2>1, <3>1
  <2>3. CASE SyncDir(u) \/ SyncDirFails(u) \/ RemoveFails(u)
    <3>1. file' = file /\ \E p \in Phase \cap Writing : GoTo(u, p)
      BY <2>3 DEF SyncDir, SyncDirFails, RemoveFails, fileVars, Phase, Ended
    <3> QED BY <2>1, <3>1
  <2>4. CASE FindFile(u)
    <3>1. up[u].pc \notin Writing /\ file' = file
      BY <2>4 DEF FindFile, At, fileVars
    <3>2. CASE file[up[u].addr] = NoBlob
      BY <2>1, <2>4, <3>1, <3>2 DEF FindFile, GoTo, Phase
    <3>3. CASE file[up[u].addr] # NoBlob
      <4>1. Size[file[up[u].addr]] \in Nat
        BY <3>3, HashIsBlob, AssetAssumption DEF AssetTypeOK
      <4>2. Progress(u)
        BY <2>4, <3>3, <4>1, WriteProgress DEF FindFile, Phase
      <4> QED BY <3>1, <4>2, WriterStays
    <3> QED BY <3>2, <3>3
  <2>5. CASE RenameIntoPlace(u)
    <3>1. Progress(u) /\ up'[u].pc = "renamed"
      BY <2>5, GoToProgress DEF RenameIntoPlace, Phase
    <3> SUFFICES ASSUME NEW a \in Address, file'[a] \notin {NoBlob, HashOf(a)}
                 PROVE  \E v \in Upload : Answers(v, a)'
      BY DEF BadFileHasWriter, Answers, HashOf
    <3>2. CASE a = up[u].addr
      BY <2>5, <3>1, <3>2 DEF RenameIntoPlace, Progress, Answers, AssetTypeOK
    <3>3. CASE a # up[u].addr
      <4>1. file'[a] = file[a]
        BY <2>5, <3>3 DEF RenameIntoPlace, AssetTypeOK
      <4>2. PICK v \in Upload : Answers(v, a)
        BY <4>1 DEF BadFileHasWriter, Answers
      <4>3. v # u
        BY <3>3, <4>2 DEF Answers
      <4> QED BY <3>1, <4>1, <4>2, <4>3 DEF Answers, Progress
    <3> QED BY <3>2, <3>3
  <2>6. CASE VerifyHash(u)
    <3>1. CASE HashMatches(u)
      <4>1. Progress(u)
        BY <2>6, <3>1, HashIsBlob, WriteProgress DEF VerifyHash, Phase
      <4> QED BY <2>6, <3>1, <4>1, WriterStays DEF VerifyHash
    <3>2. CASE ~HashMatches(u)
      <4>1. Progress(u)
        BY <2>6, <3>2, GoToProgress DEF VerifyHash, Phase, Ended
      <4> SUFFICES ASSUME NEW a \in Address, file'[a] \notin {NoBlob, HashOf(a)}
                   PROVE  \E v \in Upload : Answers(v, a)'
        BY DEF BadFileHasWriter, Answers, HashOf
      <4>2. a # up[u].addr /\ file'[a] = file[a]
        BY <2>6, <3>2 DEF VerifyHash, AssetTypeOK
      <4>3. PICK v \in Upload : Answers(v, a)
        BY <4>2 DEF BadFileHasWriter, Answers
      <4>4. v # u
        BY <4>2, <4>3 DEF Answers
      <4> QED BY <4>1, <4>2, <4>3, <4>4 DEF Answers, Progress
    <3> QED BY <3>1, <3>2
  <2>7. CASE RegisterCharge(u)
    <3>1. up[u].pc \notin Writing /\ file' = file /\ \E p \in Phase : GoTo(u, p)
      BY <2>7 DEF RegisterCharge, At, fileVars, Phase, Ended
    <3> QED BY <2>1, <3>1
  <2> QED BY <1>1, <2>2, <2>3, <2>4, <2>5, <2>6, <2>7 DEF UploadStep
<1>2. CASE SetTenantStorageQuota \/ UNCHANGED vars
  BY <1>2 DEF SetTenantStorageQuota, fileVars, vars, BadFileHasWriter
<1>3. CASE Crash
  <2>1. file' = file
    BY <1>3 DEF Crash, fileVars
  <2> SUFFICES ASSUME NEW a \in Address, file[a] \notin {NoBlob, HashOf(a)}
               PROVE  \E v \in Upload : Answers(v, a)'
    BY <2>1 DEF BadFileHasWriter, Answers, HashOf
  <2>2. PICK v \in Upload : Answers(v, a)
    BY DEF BadFileHasWriter, Answers
  <2>3. up'[v].addr = up[v].addr /\ up'[v].body = up[v].body /\ up'[v].pc = "abandoned"
    BY <1>3, <2>2, CrashProgress DEF Answers, Ended
  <2> QED BY <2>1, <2>2, <2>3 DEF Answers
<1> QED BY <1>1, <1>2, <1>3 DEF Next

\* Between power failures, a file whose content does not have the hash of its
\* address is there only while the upload that sent it is between rename and
\* verification, or because that upload was cut off there.
THEOREM WrongFilesHaveWriters ==
  ASSUME ~PowerMayFail
  PROVE  Spec => []BadFileHasWriter
<1>1. Init => BadFileHasWriter
  BY DEF Init, BadFileHasWriter
<1> QED BY <1>1, WriterStep, AssetTypesHold, PTL DEF Spec

-----------------------------------------------------------------------------
(***************************************************************************)
(* What was accepted opens as itself.                                      *)
(***************************************************************************)

OneNamePerRepo == \A i, j \in Scope : RepoOf[i] = RepoOf[j] => i = j

\* Requests that found the row of the asset or have committed it.
HasRow == {"registered", "stored", "unanswered", "existing"}

\* Requests that have put the asset into place, or found it there.
Placed == {"renamed", "synced", "register", "registerLock"} \cup HasRow

\* What holds of an address to which nobody sent anything but the asset.
PlacedCleanly(a) ==
  /\ file[a] \in {NoBlob, HashOf(a)}
  /\ row[KeyOf(a)] # NoRow =>
       row[KeyOf(a)] = Size[HashOf(a)] /\ file[a] = HashOf(a)
  /\ \A u \in Upload : up[u].addr = a =>
       /\ up[u].pc \in Placed => file[a] = HashOf(a)
       /\ up[u].pc \in {"register", "registerLock"} => up[u].written = Size[HashOf(a)]
       /\ up[u].pc \in HasRow => row[KeyOf(a)] # NoRow

OpenInv == \A a \in Address : Untainted(a) => PlacedCleanly(a)

LEMMA OpenInvSuffices ==
  ASSUME AssetTypeOK, OpenInv
  PROVE  AcceptedIsOpenable
<1> SUFFICES ASSUME NEW u \in Upload, Accepted(u), Untainted(up[u].addr)
             PROVE  /\ row[KeyOf(up[u].addr)] = Size[HashOf(up[u].addr)]
                    /\ Open(up[u].addr) = HashOf(up[u].addr)
  BY DEF AcceptedIsOpenable
<1>1. up[u].addr \in Address
  BY HashIsBlob
<1>2. PlacedCleanly(up[u].addr)
  BY <1>1 DEF OpenInv
<1> QED BY <1>2 DEF PlacedCleanly, HasRow, Placed, Accepted, Open, OpenAsset

\* With one name per repository, addresses and keys are one to one.
LEMMA KeyIsAddress ==
  ASSUME OneNamePerRepo, NEW a \in Address, NEW b \in Address, KeyOf(a) = KeyOf(b)
  PROVE  a = b
BY DEF OneNamePerRepo, KeyOf, HashOf, Address

\* What is tainted stays so: no request becomes idle again.
LEMMA TaintStays ==
  ASSUME AssetTypeOK, NEW a \in Address, Untainted(a)',
         \A u \in Upload : /\ up'[u].addr = up[u].addr
                           /\ up'[u].body = up[u].body
                           /\ up'[u].pc = "idle" => up[u].pc = "idle"
  PROVE  Untainted(a)
BY DEF Untainted, HashMatches, KeyOf, HashOf

\* A step of u matters to its own address alone.
LEMMA OtherAddresses ==
  ASSUME AssetTypeOK, OneNamePerRepo, NEW u \in Upload, Progress(u),
         NEW a \in Address, a # up[u].addr, PlacedCleanly(a),
         file'[a] = file[a], row'[KeyOf(a)] = row[KeyOf(a)]
  PROVE  PlacedCleanly(a)'
BY DEF PlacedCleanly, Progress, KeyOf, HashOf

\* The phase a request goes to asks for no more than what it knows.
LEMMA OwnAddress ==
  ASSUME AssetTypeOK, NEW u \in Upload, Progress(u), PlacedCleanly(up[u].addr),
         file'[up[u].addr] = file[up[u].addr] \/ file'[up[u].addr] = HashOf(up[u].addr),
         row'[KeyOf(up[u].addr)] # NoRow =>
           /\ row'[KeyOf(up[u].addr)] = Size[HashOf(up[u].addr)]
           /\ file'[up[u].addr] = HashOf(up[u].addr),
         row[KeyOf(up[u].addr)] # NoRow => row'[KeyOf(up[u].addr)] # NoRow,
         up'[u].pc \in Placed => file'[up[u].addr] = HashOf(up[u].addr),
         up'[u].pc \in {"register", "registerLock"} =>
           up'[u].written = Size[HashOf(up[u].addr)],
         up'[u].pc \in HasRow => row'[KeyOf(up[u].addr)] # NoRow
  PROVE  PlacedCleanly(up[u].addr)'
<1> DEFINE a == up[u].addr
<1>1. up'[u].addr = a /\ KeyOf(a)' = KeyOf(a) /\ HashOf(a)' = HashOf(a)
  BY DEF Progress, KeyOf, HashOf
<1> SUFFICES /\ file'[a] \in {NoBlob, HashOf(a)}
             /\ row'[KeyOf(a)] # NoRow =>
                  row'[KeyOf(a)] = Size[HashOf(a)] /\ file'[a] = HashOf(a)
             /\ \A v \in Upload : up'[v].addr = a =>
                  /\ up'[v].pc \in Placed => file'[a] = HashOf(a)
                  /\ up'[v].pc \in {"register", "registerLock"} =>
                       up'[v].written = Size[HashOf(a)]
                  /\ up'[v].pc \in HasRow => row'[KeyOf(a)] # NoRow
  BY <1>1 DEF PlacedCleanly, KeyOf, HashOf
<1>2. file'[a] \in {NoBlob, HashOf(a)}
  BY DEF PlacedCleanly
<1>3. ASSUME NEW v \in Upload, v # u, up'[v].addr = a
      PROVE  /\ up'[v].pc \in Placed => file'[a] = HashOf(a)
             /\ up'[v].pc \in {"register", "registerLock"} =>
                  up'[v].written = Size[HashOf(a)]
             /\ up'[v].pc \in HasRow => row'[KeyOf(a)] # NoRow
  <2>1. up'[v] = up[v]
    BY <1>3 DEF Progress
  <2> QED BY <1>3, <2>1 DEF PlacedCleanly
<1> QED BY <1>2, <1>3

\* One step of an upload, at the address it is for.
LEMMA OwnStep ==
  ASSUME AssetTypeOK, NEW u \in Upload, UploadStep(u), HashMatches(u),
         PlacedCleanly(up[u].addr)
  PROVE  PlacedCleanly(up[u].addr)' /\ Progress(u) /\ up'[u].pc # "idle"
<1> DEFINE a == up[u].addr
<1>0. /\ a \in Address /\ KeyOf(a) \in Key /\ up[u].body = HashOf(a) /\ HashOf(a) \in Blob
      /\ up[u].written \in Nat /\ Size[HashOf(a)] \in Nat /\ HashOf(a) # NoBlob
  BY HashIsBlob, AssetAssumption DEF HashMatches
\* A step that leaves files and rows alone.
<1>1. ASSUME file' = file, row' = row, NEW p \in Phase, GoTo(u, p), p # "idle",
             p \in Placed => file[a] = HashOf(a),
             p \in {"register", "registerLock"} => up[u].written = Size[HashOf(a)],
             p \in HasRow => row[KeyOf(a)] # NoRow
      PROVE  PlacedCleanly(up[u].addr)' /\ Progress(u) /\ up'[u].pc # "idle"
  <2>1. Progress(u) /\ up'[u].pc = p /\ up'[u].written = up[u].written
    BY <1>1, GoToProgress
  <2>2. row[KeyOf(a)] # NoRow =>
          row[KeyOf(a)] = Size[HashOf(a)] /\ file[a] = HashOf(a)
    BY DEF PlacedCleanly
  <2> QED BY <1>1, <2>1, <2>2, OwnAddress
<1>2. CASE Negotiate(u) \/ SendUpload(u) \/ AdmitExists(u) \/ AdmitQuota(u) \/ CopyFails(u)
           \/ SyncDirFails(u) \/ RemoveFails(u) \/ RegisterFails(u)
  <2>1. /\ file' = file /\ row' = row
        /\ \E p \in Phase \ (Placed \ {"existing"}) :
             /\ GoTo(u, p) /\ p # "idle"
             /\ p = "existing" => row[KeyOf(a)] # NoRow
    BY <1>2 DEF Negotiate, SendUpload, AdmitExists, AdmitQuota, CopyFails, SyncDirFails,
         RemoveFails, RegisterFails, Admitted, Missing, Registered, tenantVars, fileVars,
         Phase, Ended, Placed, HasRow
  <2>2. PICK p \in Phase \ (Placed \ {"existing"}) :
          GoTo(u, p) /\ p # "idle" /\ (p = "existing" => row[KeyOf(a)] # NoRow)
    BY <2>1
  <2>3. p \in Placed => file[a] = HashOf(a)
    BY <2>2 DEF PlacedCleanly
  <2>5. p \notin {"register", "registerLock"}
    BY DEF Placed
  <2>4. p \in HasRow => p = "existing"
    BY DEF Placed, HasRow
  <2> QED BY <1>1, <2>1, <2>2, <2>3, <2>4, <2>5
<1>3. CASE FindFile(u)
  <2>1. file' = file /\ row' = row
    BY <1>3 DEF FindFile, fileVars, tenantVars
  <2>2. CASE file[a] = NoBlob
    <3>1. GoTo(u, "copy")
      BY <1>3, <2>2 DEF FindFile, GoTo
    <3>2. "copy" \in Phase /\ "copy" \notin Placed /\ "copy" \notin HasRow
      BY DEF Phase, Placed, HasRow
    <3> QED BY <1>1, <2>1, <3>1, <3>2
  <2>3. CASE file[a] # NoBlob
    <3>1. file[a] = HashOf(a)
      BY <2>3 DEF PlacedCleanly
    <3>2. up' = [up EXCEPT ![u].pc = "register", ![u].written = Size[HashOf(a)]]
      BY <1>3, <2>3, <3>1 DEF FindFile
    <3>3. Progress(u) /\ up'[u].pc = "register" /\ up'[u].written = Size[HashOf(a)]
      BY <1>0, <3>2, WriteProgress DEF Phase
    <3>4. row[KeyOf(a)] # NoRow => row[KeyOf(a)] = Size[HashOf(a)]
      BY DEF PlacedCleanly
    <3> QED BY <2>1, <3>1, <3>3, <3>4, OwnAddress DEF HasRow
  <2> QED BY <2>2, <2>3
<1>4. CASE RenameIntoPlace(u)
  <2>1. file'[a] = HashOf(a) /\ row' = row
    BY <1>0, <1>4 DEF RenameIntoPlace, AssetTypeOK, tenantVars
  <2>2. Progress(u) /\ up'[u].pc = "renamed"
    BY <1>4, GoToProgress DEF RenameIntoPlace, Phase
  <2>3. row[KeyOf(a)] # NoRow => row[KeyOf(a)] = Size[HashOf(a)]
    BY DEF PlacedCleanly
  <2> QED BY <2>1, <2>2, <2>3, OwnAddress DEF HasRow
<1>5. CASE SyncDir(u)
  <2>1. file' = file /\ row' = row /\ GoTo(u, "synced") /\ file[a] = HashOf(a)
    BY <1>5 DEF SyncDir, tenantVars, PlacedCleanly, Placed, At
  <2> QED BY <1>1, <2>1 DEF Phase, HasRow
<1>6. CASE VerifyHash(u)
  <2>1. /\ file' = file /\ row' = row /\ file[a] = HashOf(a)
        /\ up' = [up EXCEPT ![u].pc = "register", ![u].written = Size[HashOf(a)]]
    BY <1>0, <1>6 DEF VerifyHash, tenantVars, PlacedCleanly, Placed, At
  <2>2. Progress(u) /\ up'[u].pc = "register" /\ up'[u].written = Size[HashOf(a)]
    BY <1>0, <2>1, WriteProgress DEF Phase
  <2>3. row[KeyOf(a)] # NoRow => row[KeyOf(a)] = Size[HashOf(a)]
    BY DEF PlacedCleanly
  <2> QED BY <2>1, <2>2, <2>3, OwnAddress DEF HasRow
<1>7. CASE RegisterExists(u)
  <2>1. /\ file' = file /\ row' = row /\ file[a] = HashOf(a)
        /\ up[u].written = Size[HashOf(a)]
        /\ \E p \in {"registered", "registerLock"} :
             GoTo(u, p) /\ (p = "registered" => row[KeyOf(a)] # NoRow)
    BY <1>7 DEF RegisterExists, Registered, tenantVars, fileVars, PlacedCleanly, Placed, At
  <2> QED BY <1>1, <2>1 DEF Phase, Ended, HasRow
<1>8. CASE RegisterCharge(u)
  <2>1. /\ file' = file /\ file[a] = HashOf(a) /\ up[u].written = Size[HashOf(a)]
        /\ row[KeyOf(a)] # NoRow => row[KeyOf(a)] = Size[HashOf(a)]
    BY <1>8 DEF RegisterCharge, fileVars, PlacedCleanly, Placed, At
  <2>2. CASE OverQuota(up[u].written)
    <3>1. row' = row /\ GoTo(u, "refused")
      BY <1>8, <2>2 DEF RegisterCharge
    <3> QED BY <1>1, <2>1, <3>1 DEF Phase, Ended, Placed, HasRow
  <2>3. CASE ~OverQuota(up[u].written)
    <3>1. Progress(u) /\ up'[u].pc = "registered"
      BY <1>8, <2>3, GoToProgress DEF RegisterCharge, Phase, Ended
    <3>2. row'[KeyOf(a)] = Size[HashOf(a)] /\ row'[KeyOf(a)] # NoRow
      BY <1>0, <1>8, <2>1, <2>3 DEF RegisterCharge, InsertRow, AssetTypeOK, NoRow
    <3> QED BY <2>1, <3>1, <3>2, OwnAddress
  <2> QED BY <2>2, <2>3
<1>9. CASE Answer(u) \/ AnswerLost(u)
  <2>1. /\ file' = file /\ row' = row /\ file[a] = HashOf(a) /\ row[KeyOf(a)] # NoRow
        /\ \E p \in {"stored", "unanswered"} : GoTo(u, p)
    BY <1>9 DEF Answer, AnswerLost, tenantVars, fileVars, PlacedCleanly, Placed, HasRow, At
  <2> QED BY <1>1, <2>1 DEF Phase, Ended
<1> QED BY <1>2, <1>3, <1>4, <1>5, <1>6, <1>7, <1>8, <1>9 DEF UploadStep

\* A step of an upload leaves other addresses, and other rows, alone.
LEMMA UploadFrame ==
  ASSUME AssetTypeOK, NEW u \in Upload, UploadStep(u)
  PROVE  /\ Progress(u) /\ up'[u].pc # "idle"
         /\ \A a \in Address \ {up[u].addr} : file'[a] = file[a]
         /\ \A k \in Key \ {KeyOf(up[u].addr)} : row'[k] = row[k]
<1>1. CASE FindFile(u)
  <2>1. CASE file[up[u].addr] = NoBlob
    <3>1. GoTo(u, "copy")
      BY <1>1, <2>1 DEF FindFile, GoTo
    <3>2. Progress(u) /\ up'[u].pc = "copy"
      BY <3>1, GoToProgress DEF Phase
    <3> QED BY <1>1, <3>2 DEF FindFile, tenantVars, fileVars
  <2>2. CASE file[up[u].addr] # NoBlob
    <3>1. Size[file[up[u].addr]] \in Nat
      BY <2>2, HashIsBlob, AssetAssumption DEF AssetTypeOK
    <3>2. Progress(u) /\ up'[u].pc = "register"
      <4> DEFINE n == Size[file[up[u].addr]]
      <4>1. up' = [up EXCEPT ![u].pc = "register", ![u].written = n]
        BY <1>1, <2>2 DEF FindFile
      <4>2. "register" \in Phase
        BY DEF Phase
      <4>3. n \in Nat
        BY <3>1
      <4> HIDE DEF n
      <4> QED BY <4>1, <4>2, <4>3, WriteProgress
    <3> QED BY <1>1, <3>2 DEF FindFile, tenantVars, fileVars
  <2> QED BY <2>1, <2>2
<1>2. CASE VerifyHash(u)
  <2>1. CASE HashMatches(u)
    <3>1. Progress(u) /\ up'[u].pc = "register"
      BY <1>2, <2>1, HashIsBlob, WriteProgress DEF VerifyHash, Phase
    <3> QED BY <1>2, <2>1, <3>1 DEF VerifyHash, tenantVars
  <2>2. CASE ~HashMatches(u)
    <3>1. Progress(u) /\ up'[u].pc = "mismatch"
      BY <1>2, <2>2, GoToProgress DEF VerifyHash, Phase, Ended
    <3> QED BY <1>2, <2>2, <3>1 DEF VerifyHash, tenantVars, AssetTypeOK
  <2> QED BY <2>1, <2>2
<1>3. CASE UploadStep(u) /\ ~FindFile(u) /\ ~VerifyHash(u)
  <2>1. \E p \in Phase \ {"idle"} : GoTo(u, p)
    BY <1>3 DEF UploadStep, Negotiate, SendUpload, AdmitExists, AdmitQuota, CopyFails,
         RenameIntoPlace, SyncDir, SyncDirFails, RemoveFails, RegisterExists, RegisterCharge,
         RegisterFails, Answer, AnswerLost, Admitted, Phase, Ended
  <2>2. Progress(u) /\ up'[u].pc # "idle"
    BY <2>1, GoToProgress
  <2>3. \A a \in Address \ {up[u].addr} : file'[a] = file[a]
    BY <1>3 DEF UploadStep, Negotiate, SendUpload, AdmitExists, AdmitQuota, CopyFails,
         RenameIntoPlace, SyncDir, SyncDirFails, RemoveFails, RegisterExists, RegisterCharge,
         RegisterFails, Answer, AnswerLost, fileVars, AssetTypeOK
  <2>4. \A k \in Key \ {KeyOf(up[u].addr)} : row'[k] = row[k]
    BY <1>3 DEF UploadStep, Negotiate, SendUpload, AdmitExists, AdmitQuota, CopyFails,
         RenameIntoPlace, SyncDir, SyncDirFails, RemoveFails, RegisterExists, RegisterCharge,
         RegisterFails, Answer, AnswerLost, InsertRow, tenantVars, AssetTypeOK
  <2> QED BY <2>2, <2>3, <2>4
<1> QED BY <1>1, <1>2, <1>3

LEMMA OpenStep ==
  ASSUME ~PowerMayFail, OneNamePerRepo
  PROVE  AssetTypeOK /\ OpenInv /\ [Next]_vars => OpenInv'
<1> SUFFICES ASSUME AssetTypeOK, OpenInv, [Next]_vars,
                    NEW a \in Address, Untainted(a)'
             PROVE  PlacedCleanly(a)'
  BY DEF OpenInv, Address
<1>1. ASSUME NEW u \in Upload, UploadStep(u)
      PROVE  PlacedCleanly(a)'
  <2>1. /\ Progress(u) /\ up'[u].pc # "idle"
        /\ \A b \in Address \ {up[u].addr} : file'[b] = file[b]
        /\ \A k \in Key \ {KeyOf(up[u].addr)} : row'[k] = row[k]
    BY <1>1, UploadFrame
  <2>2. Untainted(a)
    BY <2>1, TaintStays DEF Progress
  <2>3. PlacedCleanly(a)
    BY <2>2 DEF OpenInv
  <2>4. CASE a = up[u].addr
    <3>1. HashMatches(u)
      BY <2>1, <2>4 DEF Untainted, HashMatches, Progress, KeyOf, HashOf
    <3>2. PlacedCleanly(up[u].addr)' /\ up'[u].addr = a
      BY <1>1, <2>1, <2>3, <2>4, <3>1, OwnStep DEF Progress
    <3> QED BY <3>2 DEF PlacedCleanly, KeyOf, HashOf
  <2>5. CASE a # up[u].addr
    <3>1. up[u].addr \in Address /\ KeyOf(a) \in Key
      BY HashIsBlob, AssetAssumption DEF Address, KeyOf, Key, HashOf
    <3>2. KeyOf(a) # KeyOf(up[u].addr)
      BY <2>5, <3>1, KeyIsAddress
    <3> QED BY <2>1, <2>3, <2>5, <3>1, <3>2, OtherAddresses
  <2> QED BY <2>4, <2>5
<1>2. CASE SetTenantStorageQuota \/ UNCHANGED vars
  <2>1. file' = file /\ row' = row /\ up' = up
    BY <1>2 DEF SetTenantStorageQuota, fileVars, vars
  <2>2. Untainted(a)
    BY <2>1 DEF Untainted, HashMatches, KeyOf, HashOf
  <2> QED BY <2>1, <2>2 DEF OpenInv, PlacedCleanly, KeyOf, HashOf
<1>3. CASE Crash
  <2>1. file' = file /\ row' = row
    BY <1>3 DEF Crash, fileVars, tenantVars
  <2>2. \A u \in Upload :
          /\ up'[u].addr = up[u].addr /\ up'[u].body = up[u].body
          /\ \/ up'[u].pc = up[u].pc \/ up'[u].pc \in {"abandoned", "lost"}
             \/ up[u].pc = "registered" /\ up'[u].pc = "unanswered"
          /\ up'[u].written = up[u].written
    BY <1>3, CrashProgress
  <2>3. PlacedCleanly(a)
    BY <2>2, TaintStays DEF OpenInv
  <2>4. \A u \in Upload :
          /\ up'[u].pc \in Placed => up[u].pc \in Placed
          /\ up'[u].pc \in HasRow => up[u].pc \in HasRow
          /\ up'[u].pc \in {"register", "registerLock"} => up'[u].pc = up[u].pc
    BY <2>2 DEF Placed, HasRow
  <2> QED BY <2>1, <2>2, <2>3, <2>4 DEF PlacedCleanly, KeyOf, HashOf
<1> QED BY <1>1, <1>2, <1>3 DEF Next

\* Between power failures and with one name per repository, an upload that
\* was answered as stored or existing is registered with the true size of
\* the asset and opens as the asset, if nobody sent other bytes for it.
THEOREM AcceptedOpens ==
  ASSUME ~PowerMayFail, OneNamePerRepo
  PROVE  Spec => []AcceptedIsOpenable
<1>1. Init => OpenInv
  BY AssetAssumption DEF Init, OpenInv, PlacedCleanly, Placed, HasRow, KeyOf, HashOf, Key, Address
<1>2. AssetTypeOK /\ OpenInv => AcceptedIsOpenable
  BY OpenInvSuffices
<1> QED BY <1>1, <1>2, OpenStep, AssetTypesHold, PTL DEF Spec

-----------------------------------------------------------------------------
(***************************************************************************)
(* What the counter counts.                                                *)
(***************************************************************************)

LEMMA SizesTyped ==
  AssetTypeOK =>
    /\ RegisteredSize \in [Key -> Nat] /\ ChargedTwice \in [Upload -> Nat]
    /\ RegisteredBytes \in Nat /\ TwiceBytes \in Nat
    /\ IsFiniteSet(Key) /\ IsFiniteSet(Upload)
<1> SUFFICES ASSUME AssetTypeOK
             PROVE  /\ RegisteredSize \in [Key -> Nat] /\ ChargedTwice \in [Upload -> Nat]
                    /\ RegisteredBytes \in Nat /\ TwiceBytes \in Nat
                    /\ IsFiniteSet(Key) /\ IsFiniteSet(Upload)
  OBVIOUS
<1>1. RegisteredSize \in [Key -> Nat]
  BY DEF AssetTypeOK, RegisteredSize
<1>2. ChargedTwice \in [Upload -> Nat]
  BY HashIsBlob DEF ChargedTwice
<1>3. IsFiniteSet(Key) /\ IsFiniteSet(Upload)
  BY FiniteTenant, FS_Product DEF Key
<1>4. RegisteredBytes \in Nat /\ TwiceBytes \in Nat
  BY <1>1, <1>2, <1>3, SumInNat DEF RegisteredBytes, TwiceBytes
<1> QED BY <1>1, <1>2, <1>3, <1>4

\* A request adds the length it reported when it is charged for a row that
\* is there.
LEMMA TwiceChange ==
  ASSUME AssetTypeOK, AssetTypeOK', NEW u \in Upload, ~ChargedAgain(u),
         \A v \in Upload \ {u} : ChargedTwice'[v] = ChargedTwice[v]
  PROVE  TwiceBytes' = TwiceBytes + IF ChargedAgain(u)' THEN up'[u].written ELSE 0
<1> DEFINE w == ChargedTwice
           v == ChargedTwice'
<1>1. w \in [Upload -> Nat] /\ v \in [Upload -> Nat] /\ IsFiniteSet(Upload)
  <2>1. AssetTypeOK' => ChargedTwice' \in [Upload -> Nat]
    BY SizesTyped DEF ChargedTwice, AssetTypeOK, Request
  <2> QED BY <2>1, SizesTyped
<1>2. w[u] = 0 /\ v[u] = IF ChargedAgain(u)' THEN up'[u].written ELSE 0
  BY DEF ChargedTwice
<1>3. \A x \in Upload \ {u} : v[x] = w[x]
  OBVIOUS
<1>4. TwiceBytes' = SumFunctionOnSet(v, Upload) /\ TwiceBytes = SumFunctionOnSet(w, Upload)
  BY DEF TwiceBytes
<1>5. TwiceBytes \in Nat /\ v[u] \in Nat
  BY <1>1, SizesTyped
<1>6. SumFunctionOnSet(v, Upload) = SumFunctionOnSet(w, Upload) + (v[u] - w[u])
  <2> HIDE DEF v, w
  <2> QED BY <1>1, <1>3, SumUpdate
<1> QED BY <1>2, <1>4, <1>5, <1>6

\* A registration adds the size of the asset, once.
LEMMA RegisteredChange ==
  ASSUME AssetTypeOK, NEW k \in Key, NEW n \in Nat,
         row' = IF row[k] # NoRow THEN row ELSE [row EXCEPT ![k] = n]
  PROVE  RegisteredBytes' = RegisteredBytes + IF row[k] # NoRow THEN 0 ELSE n
<1> DEFINE w == RegisteredSize
           v == RegisteredSize'
<1>1. w \in [Key -> Nat] /\ v \in [Key -> Nat] /\ IsFiniteSet(Key)
  BY SizesTyped DEF RegisteredSize, AssetTypeOK
<1>2. \A x \in Key \ {k} : v[x] = w[x]
  BY DEF RegisteredSize, AssetTypeOK
<1>3. v[k] - w[k] = IF row[k] # NoRow THEN 0 ELSE n
  BY DEF RegisteredSize, AssetTypeOK, NoRow
<1>4. SumFunctionOnSet(v, Key) = SumFunctionOnSet(w, Key) + (v[k] - w[k])
  <2> HIDE DEF v, w
  <2> QED BY <1>1, <1>2, SumUpdate
<1>5. RegisteredBytes' = SumFunctionOnSet(v, Key) /\ RegisteredBytes = SumFunctionOnSet(w, Key)
  BY DEF RegisteredBytes
<1> QED BY <1>3, <1>4, <1>5

\* Where a request is that has not looked for its row yet.
BeforeLookUp == Phase \ (Ended \cup {"registerLock", "registered"})

\* A request between its look-up and its charge finds a row if and only if
\* another one inserted it in between, and only such requests have raced.
RacesKnown(u) ==
  /\ At(u, "registerLock") => (Registered(up[u].addr) <=> u \in raced)
  /\ u \in raced => up[u].pc \notin BeforeLookUp

RaceInv == \A u \in Upload : RacesKnown(u)

\* A step that leaves the rows alone and takes no request to registerLock or
\* past a charge.
LEMMA RaceStays ==
  ASSUME AssetTypeOK, RaceInv, tenantVars' = tenantVars,
         \A v \in Upload :
           /\ (up'[v].written = up[v].written \/ v \notin raced)
           /\ up'[v].addr = up[v].addr
           /\ up'[v].pc = "registerLock" => up[v].pc = "registerLock"
           /\ up'[v].pc \in BeforeLookUp => up[v].pc \in BeforeLookUp
           /\ v \in raced => ((up'[v].pc \in {"registered", "stored", "unanswered"})
                               <=> (up[v].pc \in {"registered", "stored", "unanswered"}))
  PROVE  /\ RaceInv' /\ ChargedTwice' = ChargedTwice
         /\ RegisteredBytes' = RegisteredBytes /\ usedBytes' = usedBytes
<1>1. row' = row /\ raced' = raced /\ usedBytes' = usedBytes
  BY DEF tenantVars
<1>2. RaceInv'
  BY <1>1 DEF RaceInv, RacesKnown, At, Registered, KeyOf, HashOf
<1>3. ChargedTwice' = ChargedTwice
  BY <1>1 DEF ChargedTwice, ChargedAgain
<1>4. RegisteredBytes' = RegisteredBytes
  BY <1>1 DEF RegisteredBytes, RegisteredSize
<1> QED BY <1>1, <1>2, <1>3, <1>4

UsageInv == UsageAccounted /\ RaceInv

\* RegisterCharge: the one step that writes the counter.
LEMMA ChargeStep ==
  ASSUME AssetTypeOK, AssetTypeOK', UsageInv, NEW u \in Upload, RegisterCharge(u)
  PROVE  UsageInv'
<1> DEFINE n == up[u].written
           k == KeyOf(up[u].addr)
<1>0. /\ n \in Nat /\ k \in Key /\ RegisteredBytes \in Nat /\ TwiceBytes \in Nat
      /\ usedBytes = RegisteredBytes + TwiceBytes /\ RaceInv /\ usedBytes \in Nat
  BY HashIsBlob, SizesTyped DEF UsageInv, UsageAccounted, AssetTypeOK
<1>1. /\ At(u, "registerLock")
      /\ Registered(up[u].addr) <=> u \in raced
      /\ ~ChargedAgain(u)
  BY <1>0 DEF RegisterCharge, RaceInv, RacesKnown, ChargedAgain, At
<1>2. Progress(u)
  BY UploadFrame DEF UploadStep
<1>3. CASE OverQuota(n)
  <2>1. up'[u].pc = "refused" /\ row' = row /\ usedBytes' = usedBytes /\ raced' = raced
    BY <1>3, GoToProgress DEF RegisterCharge, Phase, Ended
  <2>2. ChargedTwice' = ChargedTwice
    <3>1. \A v \in Upload \ {u} : ChargedTwice'[v] = ChargedTwice[v]
      BY <1>2, <2>1 DEF ChargedTwice, ChargedAgain, Progress
    <3>2. ChargedTwice'[u] = ChargedTwice[u]
      BY <1>1, <2>1 DEF ChargedTwice, ChargedAgain
    <3> QED BY <3>1, <3>2 DEF ChargedTwice
  <2>3. RegisteredBytes' = RegisteredBytes /\ TwiceBytes' = TwiceBytes
    BY <2>1, <2>2 DEF RegisteredBytes, RegisteredSize, TwiceBytes
  <2>4. ASSUME NEW v \in Upload PROVE RacesKnown(v)'
    BY <1>0, <1>2, <2>1 DEF RaceInv, RacesKnown, Progress, At, Registered, KeyOf, HashOf,
         BeforeLookUp, Phase, Ended
  <2> QED BY <1>0, <2>1, <2>3, <2>4 DEF UsageInv, UsageAccounted, RaceInv
<1>4. CASE ~OverQuota(n)
  <2>1. up'[u].pc = "registered" /\ up'[u].written = n
    BY <1>4, GoToProgress DEF RegisterCharge, Phase, Ended
  <2>2. /\ usedBytes' = usedBytes + n /\ InsertRow(u)
        /\ row' = IF row[k] # NoRow THEN row ELSE [row EXCEPT ![k] = n]
    BY <1>4 DEF RegisterCharge, InsertRow
  <2>3. RegisteredBytes' = RegisteredBytes + IF row[k] # NoRow THEN 0 ELSE n
    <3> HIDE DEF n, k
    <3> QED BY <1>0, <2>2, RegisteredChange
  <2>4. /\ raced \subseteq raced'
        /\ u \in raced' <=> u \in raced
        /\ \A v \in raced' \ raced : At(v, "registerLock") /\ v # u
    BY <2>2 DEF InsertRow
  <2>5. \A v \in Upload \ {u} : ChargedTwice'[v] = ChargedTwice[v]
    <3>1. ASSUME NEW v \in Upload \ {u}
          PROVE  up'[v] = up[v] /\ (ChargedAgain(v)' <=> ChargedAgain(v))
      <4>1. up'[v] = up[v]
        BY <1>2, <3>1 DEF Progress
      <4>2. v \in raced' /\ v \notin raced => up[v].pc = "registerLock"
        BY <2>4 DEF At
      <4> QED BY <2>4, <4>1, <4>2 DEF ChargedAgain
    <3>2. ASSUME NEW v \in Upload \ {u}
          PROVE  (IF ChargedAgain(v)' THEN up'[v].written ELSE 0)
                   = (IF ChargedAgain(v) THEN up[v].written ELSE 0)
      BY <3>1
    <3> QED BY <3>2 DEF ChargedTwice
  <2>6. TwiceBytes' = TwiceBytes + IF u \in raced THEN n ELSE 0
    <3>1. ChargedAgain(u)' <=> u \in raced
      BY <2>1, <2>4 DEF ChargedAgain
    <3> QED BY <1>1, <2>1, <2>5, <3>1, TwiceChange
  <2>7. u \in raced <=> row[k] # NoRow
    BY <1>1 DEF Registered
  <2>8. usedBytes' = RegisteredBytes' + TwiceBytes'
    <3> HIDE DEF n, k
    <3> QED BY <1>0, <2>2, <2>3, <2>6, <2>7
  <2>9. ASSUME NEW v \in Upload PROVE RacesKnown(v)'
    <3>1. CASE v = u
      BY <2>1, <3>1 DEF RacesKnown, At, BeforeLookUp, Phase, Ended
    <3>2. CASE v # u
      <4>1. up'[v] = up[v] /\ RacesKnown(v) /\ KeyOf(up[v].addr) \in Key
        BY <1>0, <1>2, <3>2, HashIsBlob DEF Progress, RaceInv
      <4>2. v \in raced' => up'[v].pc \notin BeforeLookUp
        BY <2>4, <4>1 DEF RacesKnown, At, BeforeLookUp
      <4>3. CASE row[k] # NoRow
        <5>1. row' = row /\ raced' = raced
          BY <2>2, <4>3 DEF InsertRow
        <5> QED BY <4>1, <5>1 DEF RacesKnown, At, Registered, KeyOf, HashOf
      <4>4. CASE row[k] = NoRow
        <5>1. /\ row' = [row EXCEPT ![k] = n]
              /\ raced' = raced \cup {x \in Upload \ {u} : At(x, "registerLock")
                                                            /\ KeyOf(up[x].addr) = k}
          BY <2>2, <4>4 DEF InsertRow
        <5>2. CASE KeyOf(up[v].addr) = k
          <6>1. row'[k] = n /\ n # NoRow
            BY <1>0, <5>1 DEF NoRow, AssetTypeOK
          <6>2. At(v, "registerLock") => v \in raced'
            BY <3>2, <5>1, <5>2
          <6> QED BY <4>1, <4>2, <5>2, <6>1, <6>2 DEF RacesKnown, At, Registered, KeyOf, HashOf
        <5>3. CASE KeyOf(up[v].addr) # k
          <6>1. row'[KeyOf(up[v].addr)] = row[KeyOf(up[v].addr)] /\ (v \in raced' <=> v \in raced)
            BY <4>1, <5>1, <5>3 DEF AssetTypeOK
          <6> QED BY <4>1, <4>2, <6>1 DEF RacesKnown, At, Registered, KeyOf, HashOf
        <5> QED BY <5>2, <5>3
      <4> QED BY <4>3, <4>4
    <3> QED BY <3>1, <3>2
  <2> QED BY <2>8, <2>9 DEF UsageInv, UsageAccounted, RaceInv
<1> QED BY <1>3, <1>4

\* RegisterExists: the look-up.
LEMMA LookUpStep ==
  ASSUME AssetTypeOK, UsageInv, NEW u \in Upload, RegisterExists(u)
  PROVE  UsageInv'
<1>1. row' = row /\ usedBytes' = usedBytes /\ raced' = raced /\ up[u].pc = "register"
  BY DEF RegisterExists, tenantVars, At
<1>2. Progress(u)
  BY UploadFrame DEF UploadStep
<1>3. u \notin raced
  BY <1>1 DEF UsageInv, RaceInv, RacesKnown, BeforeLookUp, Phase, Ended
<1>4. up'[u].pc = IF Registered(up[u].addr) THEN "registered" ELSE "registerLock"
  BY GoToProgress DEF RegisterExists, Phase
<1>5. ChargedTwice' = ChargedTwice
  <2>1. \A v \in Upload : ChargedTwice'[v] = ChargedTwice[v]
    BY <1>1, <1>2, <1>3 DEF ChargedTwice, ChargedAgain, Progress
  <2> QED BY <2>1 DEF ChargedTwice
<1>6. RegisteredBytes' = RegisteredBytes /\ TwiceBytes' = TwiceBytes
  BY <1>1, <1>5 DEF RegisteredBytes, RegisteredSize, TwiceBytes
<1>7. ASSUME NEW v \in Upload PROVE RacesKnown(v)'
  <2>1. CASE v = u
    BY <1>1, <1>2, <1>3, <1>4, <2>1 DEF RacesKnown, At, Registered, KeyOf, HashOf, Progress
  <2>2. CASE v # u
    BY <1>1, <1>2, <2>2 DEF UsageInv, RaceInv, RacesKnown, At, Registered, KeyOf, HashOf, Progress
  <2> QED BY <2>1, <2>2
<1> QED BY <1>1, <1>6, <1>7 DEF UsageInv, UsageAccounted, RaceInv

LEMMA UsageStep ==
  AssetTypeOK /\ AssetTypeOK' /\ UsageInv /\ [Next]_vars => UsageInv'
<1> SUFFICES ASSUME AssetTypeOK, AssetTypeOK', UsageInv, [Next]_vars
             PROVE  UsageInv'
  OBVIOUS
<1> DEFINE Stays == /\ RaceInv' /\ ChargedTwice' = ChargedTwice
                    /\ RegisteredBytes' = RegisteredBytes /\ usedBytes' = usedBytes
<1>0. Stays => UsageInv'
  BY DEF UsageInv, UsageAccounted, TwiceBytes
<1>1. ASSUME NEW u \in Upload, UploadStep(u), ~RegisterCharge(u), ~RegisterExists(u)
      PROVE  UsageInv'
  <2>1. Progress(u) /\ tenantVars' = tenantVars
    BY <1>1, UploadFrame DEF UploadStep, Negotiate, SendUpload, AdmitExists, AdmitQuota,
         FindFile, CopyFails, RenameIntoPlace, SyncDir, SyncDirFails, VerifyHash, RemoveFails,
         RegisterFails, Answer, AnswerLost, tenantVars
  <2>2. /\ up'[u].pc # "registerLock"
        /\ up'[u].pc \in BeforeLookUp => up[u].pc \in BeforeLookUp
        /\ \/ up[u].pc \in BeforeLookUp
           \/ /\ up'[u].written = up[u].written
              /\ (up'[u].pc \in {"registered", "stored", "unanswered"})
                    <=> (up[u].pc \in {"registered", "stored", "unanswered"})
    <3>1. CASE FindFile(u) \/ VerifyHash(u)
      <4>1. up[u].pc \in BeforeLookUp /\ up[u].pc # "registerLock"
        BY <3>1 DEF FindFile, VerifyHash, At, BeforeLookUp, Phase, Ended
      <4>2. up'[u].pc \in {"copy", "register", "mismatch"}
        BY <3>1 DEF FindFile, VerifyHash, GoTo, AssetTypeOK, Request
      <4> QED BY <4>1, <4>2
    <3>2. CASE ~FindFile(u) /\ ~VerifyHash(u)
      <4>1. \E p \in Phase :
              /\ GoTo(u, p) /\ p # "registerLock"
              /\ p \in BeforeLookUp => up[u].pc \in BeforeLookUp
              /\ \/ up[u].pc \in BeforeLookUp
                 \/ (p \in {"registered", "stored", "unanswered"})
                       <=> (up[u].pc \in {"registered", "stored", "unanswered"})
        BY <1>1, <3>2 DEF UploadStep, Negotiate, SendUpload, AdmitExists, AdmitQuota,
             CopyFails, RenameIntoPlace, SyncDir, SyncDirFails, RemoveFails, RegisterFails,
             Answer, AnswerLost, Admitted, At, BeforeLookUp, Phase, Ended
      <4> QED BY <4>1, GoToProgress
    <3> QED BY <3>1, <3>2
  <2>3. up[u].pc \in BeforeLookUp => u \notin raced
    BY DEF UsageInv, RaceInv, RacesKnown
  <2>4. Stays
    <3> HIDE DEF Stays
    <3>1. ASSUME NEW v \in Upload
          PROVE  /\ (up'[v].written = up[v].written \/ v \notin raced)
                 /\ up'[v].addr = up[v].addr
                 /\ up'[v].pc = "registerLock" => up[v].pc = "registerLock"
                 /\ up'[v].pc \in BeforeLookUp => up[v].pc \in BeforeLookUp
                 /\ v \in raced => ((up'[v].pc \in {"registered", "stored", "unanswered"})
                                       <=> (up[v].pc \in {"registered", "stored", "unanswered"}))
      <4>1. CASE v = u
        BY <2>1, <2>2, <2>3, <4>1 DEF Progress
      <4>2. CASE v # u
        BY <2>1, <4>2 DEF Progress
      <4> QED BY <4>1, <4>2
    <3> QED BY <2>1, <3>1, RaceStays DEF UsageInv, Stays
  <2> QED BY <1>0, <2>4
<1>2. CASE SetTenantStorageQuota \/ UNCHANGED vars
  BY <1>2 DEF SetTenantStorageQuota, vars, UsageInv, UsageAccounted, RegisteredBytes, TwiceBytes,
       RegisteredSize, ChargedTwice, ChargedAgain, RaceInv, RacesKnown, At, Registered, KeyOf, HashOf
<1>3. CASE Crash
  <2>1. tenantVars' = tenantVars
    BY <1>3 DEF Crash
  <2>2. Stays
    <3> HIDE DEF Stays
    <3>1. ASSUME NEW v \in Upload
          PROVE  /\ (up'[v].written = up[v].written \/ v \notin raced)
                 /\ up'[v].addr = up[v].addr
                 /\ up'[v].pc = "registerLock" => up[v].pc = "registerLock"
                 /\ up'[v].pc \in BeforeLookUp => up[v].pc \in BeforeLookUp
                 /\ v \in raced => ((up'[v].pc \in {"registered", "stored", "unanswered"})
                                       <=> (up[v].pc \in {"registered", "stored", "unanswered"}))
      BY <1>3, CrashProgress DEF BeforeLookUp, Phase, Ended
    <3> QED BY <2>1, <3>1, RaceStays DEF UsageInv, Stays
  <2> QED BY <1>0, <2>2
<1>4. CASE \E u \in Upload : RegisterCharge(u) \/ RegisterExists(u)
  BY <1>4, ChargeStep, LookUpStep
<1> QED BY <1>1, <1>2, <1>3, <1>4 DEF Next

\* The counter is what is registered and what requests charged again because
\* another one inserted their row between their look-up and their charge:
\* refusals, failures, crashes, lost answers and later uploads cost nothing
\* more, whatever the power failures and the names.
THEOREM UsageIsAccounted ==
  Spec => []UsageAccounted
<1>1. Init => UsageInv
  <2> SUFFICES ASSUME Init
               PROVE  UsageInv
    OBVIOUS
  <2>1. /\ RegisteredSize \in [Key -> Nat] /\ \A k \in Key : RegisteredSize[k] = 0
        /\ ChargedTwice \in [Upload -> Nat] /\ \A u \in Upload : ChargedTwice[u] = 0
    BY DEF Init, RegisteredSize, ChargedTwice, ChargedAgain
  <2>2. RegisteredBytes = 0 /\ TwiceBytes = 0
    BY <2>1, SumOfZeros, FiniteTenant, FS_Product DEF RegisteredBytes, TwiceBytes, Key
  <2>3. RaceInv
    BY DEF Init, RaceInv, RacesKnown, At
  <2> QED BY <2>2, <2>3 DEF Init, UsageInv, UsageAccounted
<1>2. UsageInv => UsageAccounted
  BY DEF UsageInv
<1> QED BY <1>1, <1>2, UsageStep, AssetTypesHold, PTL DEF Spec
=============================================================================
