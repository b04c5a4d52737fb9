--------------------------- MODULE ClaimStoreProofs ---------------------------
(*****************************************************************************)
(* Type correctness of ClaimStore, that no outdated row is current outside   *)
(* an upsert, and that under one ingester every claim keeps its document and *)
(* what is current is what its note says, for any notes, values, number of   *)
(* ingesters, writes and aborts.                                             *)
(*****************************************************************************)
EXTENDS ClaimStore, TLAPS

\* The stages an ingester can be at, and the part of TypeOK about them.
Stages == {"idle", "stat", "digest", "touch", "document", "extract", "probe", "insert",
           "seal", "unseal", "declaim"}
ProcsTyped ==
  /\ proc \in [Ingesters -> Procs]
  /\ \A i \in Ingesters : proc[i].at # "idle" => proc[i].path \in Notes
  /\ \A i \in Ingesters : proc[i].at \in {"probe", "insert"} => proc[i].text.claim # None

\* Moving an ingester to another stage keeps the rest of it, and of the others.
LEMMA StageFrame ==
  ASSUME TypeOK, NEW i \in Ingesters, NEW s \in Stages, Stage(i, s), proc[i].at # "idle",
         s \in {"probe", "insert"} => proc[i].at \in {"probe", "insert"}
  PROVE  /\ ProcsTyped'
         /\ proc'[i].at = s /\ proc'[i].path = proc[i].path
         /\ \A j \in Ingesters \ {i} : proc'[j] = proc[j]
BY DEF TypeOK, ProcsTyped, Stage, Stages, Procs

\* So does letting it finish.
LEMMA FinishFrame ==
  ASSUME TypeOK, NEW i \in Ingesters, Finish(i)
  PROVE  /\ ProcsTyped'
         /\ proc'[i].at = "idle"
         /\ \A j \in Ingesters \ {i} : proc'[j] = proc[j]
<1>1. Idle \in Procs /\ Idle.at = "idle"
  BY DEF Idle, NoText, Procs, Texts
<1> QED
  BY <1>1 DEF TypeOK, ProcsTyped, Finish

-------------------------------------------------------------------------------
(* Type correctness *)

LEMMA TypeInit == Init => TypeOK
<1>1. Idle \in Procs /\ Idle.at = "idle"
  BY DEF Idle, NoText, Procs, Texts
<1> SUFFICES ASSUME Init
             PROVE  TypeOK
  OBVIOUS
<1>2. setup \in Setups
  BY ClaimAssumption DEF Init
<1>3. /\ proc \in [Ingesters -> Procs]
      /\ \A i \in Ingesters : proc[i].at = "idle"
  BY <1>1 DEF Init
<1>4. /\ files \in [Notes -> Texts \cup {None}]
      /\ docs \in [Notes -> Documents \cup {None}]
      /\ missed \in [Ingesters -> SUBSET Notes]
  BY DEF Init
<1>5. claims \subseteq Rows /\ clock \in Nat /\ torn \in BOOLEAN /\ cut \subseteq Notes
  BY DEF Init
<1> QED
  BY <1>2, <1>3, <1>4, <1>5 DEF TypeOK

\* The steps of an ingest or a delete under way.
LEMMA IngestTypes == ASSUME TypeOK, NEW i \in Ingesters, Ingest(i) PROVE TypeOK'
<1>1. CASE Stat(i)
  <2> DEFINE p == proc[i].path
             t == IF Exists(p) THEN files[p].at ELSE clock + 1
  <2>1. p \in Notes
    BY <1>1 DEF Stat, TypeOK
  <2>2. t \in Nat
    <3>1. Exists(p) => files[p] \in Texts
      BY <2>1 DEF Exists, TypeOK
    <3> QED
      BY <3>1 DEF Texts, TypeOK
  <2>3. clock' \in Nat
    BY <1>1 DEF Stat, TypeOK
  <2>4. proc' = [proc EXCEPT ![i].at = "digest", ![i].mtime = t]
    BY <1>1 DEF Stat
  <2> HIDE DEF t, p
  <2>5. proc[i].at = "stat"
    BY <1>1 DEF Stat
  <2>6. ProcsTyped'
    BY <2>2, <2>4, <2>5, ZenonT(60) DEF TypeOK, ProcsTyped, Procs
  <2> QED
    BY <1>1, <2>3, <2>6 DEF Stat, TypeOK, ProcsTyped
<1>2. CASE Digest(i)
  <2>1. ProcsTyped'
    BY <1>2, StageFrame DEF Digest, Stages
  <2> QED
    BY <1>2, <2>1 DEF Digest, TypeOK, ProcsTyped
<1>3. CASE Touch(i)
  <2>1. ProcsTyped'
    BY <1>3, FinishFrame DEF Touch
  <2>2. docs' \in [Notes -> Documents \cup {None}]
    BY <1>3 DEF Touch, TypeOK, Stored, Documents, Procs
  <2> QED
    BY <1>3, <2>1, <2>2 DEF Touch, TypeOK, ProcsTyped
<1>4. CASE StoreDocument(i)
  <2>1. ProcsTyped'
    BY <1>4, StageFrame DEF StoreDocument, Stages
  <2>2. docs' \in [Notes -> Documents \cup {None}]
    BY <1>4 DEF StoreDocument, TypeOK, Documents, Procs
  <2> QED
    BY <1>4, <2>1, <2>2 DEF StoreDocument, TypeOK, ProcsTyped
<1>5. CASE Extract(i)
  <2>1. CASE proc[i].text.claim = None
    BY <1>5, <2>1, FinishFrame DEF Extract, TypeOK, ProcsTyped, Mended
  <2>2. CASE proc[i].text.claim # None
    <3>1. PICK t \in Nat : /\ proc' = [proc EXCEPT ![i].at = "probe", ![i].from = t]
                           /\ clock' \in Nat
      BY <1>5, <2>2 DEF Extract, TypeOK, Stored, Documents
    <3> QED
      BY <1>5, <2>2, <3>1 DEF Extract, TypeOK, Procs
  <2> QED
    BY <2>1, <2>2
<1>6. CASE Probe(i)
  <2>1. ProcsTyped'
    BY <1>6, StageFrame, FinishFrame DEF Probe, Stages
  <2> QED
    BY <1>6, <2>1 DEF Probe, TypeOK, ProcsTyped, Mended
<1>7. CASE Insert(i)
  <2>1. ProcsTyped'
    BY <1>7, StageFrame DEF Insert, Stages
  <2>2. proc[i].text.claim \in Values /\ proc[i].path \in Notes /\ proc[i].from \in Nat
    BY <1>7 DEF Insert, TypeOK, Procs, Texts
  <2> DEFINE same == {r \in claims : r.from = proc[i].from}
             live == \A r \in same : r.current
             row == [from |-> proc[i].from, value |-> proc[i].text.claim,
                     path |-> proc[i].path, current |-> live]
  <2>4. row \in Rows
    <3>1. live \in BOOLEAN
      OBVIOUS
    <3> HIDE DEF live
    <3> QED
      BY <2>2, <3>1 DEF Rows
  <2>3. claims' \subseteq Rows
    <3>1. claims' = {r \in claims : r.from # proc[i].from} \cup {row}
      BY <1>7 DEF Insert
    <3> HIDE DEF row
    <3> QED
      BY <2>4, <3>1 DEF TypeOK
  <2> QED
    BY <1>7, <2>1, <2>3 DEF Insert, TypeOK, ProcsTyped
<1>8. CASE Seal(i)
  <2>1. ProcsTyped'
    BY <1>8, StageFrame DEF Seal, Stages
  <2>2. claims' \subseteq Rows
    BY <1>8 DEF Seal, TypeOK, Rows
  <2> QED
    BY <1>8, <2>1, <2>2 DEF Seal, TypeOK, ProcsTyped
<1>9. CASE Unseal(i)
  <2>1. ProcsTyped'
    BY <1>9, FinishFrame DEF Unseal
  <2>2. claims' \subseteq Rows
    BY <1>9 DEF Unseal, TypeOK, Rows
  <2> QED
    BY <1>9, <2>1, <2>2 DEF Unseal, TypeOK, ProcsTyped
<1>10. CASE Declaim(i)
  BY <1>10, FinishFrame DEF Declaim, TypeOK, ProcsTyped
<1> QED
  BY <1>1, <1>2, <1>3, <1>4, <1>5, <1>6, <1>7, <1>8, <1>9, <1>10 DEF Ingest

LEMMA TypeStep == TypeOK /\ [Next]_vars => TypeOK'
<1> SUFFICES ASSUME TypeOK, [Next]_vars
             PROVE  TypeOK'
  OBVIOUS
<1>1. ASSUME NEW p \in Notes, NEW v \in Values \cup {None}, Write(p, v)
      PROVE  TypeOK'
  <2>1. clock' \in Nat /\ setup' \in Setups
    BY <1>1 DEF Write, TypeOK, Setups
  <2>2. files' \in [Notes -> Texts \cup {None}]
    BY <1>1, <2>1 DEF Write, TypeOK, Texts
  <2> QED
    BY <1>1, <2>1, <2>2 DEF Write, TypeOK
<1>2. ASSUME NEW p \in Notes, Remove(p)
      PROVE  TypeOK'
  BY <1>2 DEF Remove, TypeOK
<1>3. ASSUME NEW i \in Ingesters, NEW p \in Notes, Read(i, p)
      PROVE  TypeOK'
  <2>1. proc' = [proc EXCEPT ![i] = [Idle EXCEPT !.at = "stat", !.path = p, !.text = files[p]]]
        /\ files[p] \in Texts
    BY <1>3 DEF Read, Exists, TypeOK
  <2>2. [Idle EXCEPT !.at = "stat", !.path = p, !.text = files[p]] \in Procs
    BY <2>1 DEF Idle, Procs
  <2> QED
    BY <1>3, <2>1, <2>2 DEF Read, TypeOK, Idle
<1>4. ASSUME NEW i \in Ingesters, NEW p \in Notes, Delete(i, p)
      PROVE  TypeOK'
  <2>1. [Idle EXCEPT !.at = "declaim", !.path = p] \in Procs
    BY DEF Idle, Procs, NoText, Texts
  <2>2. missed' \in [Ingesters -> SUBSET Notes]
    BY <1>4 DEF Delete, TypeOK
  <2> QED
    BY <1>4, <2>1, <2>2 DEF Delete, TypeOK, Idle
<1>5. ASSUME NEW i \in Ingesters, Ingest(i)
      PROVE  TypeOK'
  BY <1>5, IngestTypes
<1>6. ASSUME NEW i \in Ingesters, Abort(i)
      PROVE  TypeOK'
  <2>1. setup' \in Setups
    BY <1>6 DEF Abort, TypeOK, Setups
  <2>2. ProcsTyped'
    BY <1>6, FinishFrame DEF Abort
  <2> QED
    BY <1>6, <2>1, <2>2 DEF Abort, TypeOK, ProcsTyped
<1>7. CASE UNCHANGED vars
  BY <1>7 DEF vars, TypeOK
<1> QED
  BY <1>1, <1>2, <1>3, <1>4, <1>5, <1>6, <1>7 DEF Next

\* Every variable keeps its type, and an ingester about to insert has a claim,
\* for any notes, values and ingesters and any number of writes and aborts.
THEOREM ClaimsTyped == Spec => []TypeOK
<1> QED
  BY TypeInit, TypeStep, PTL DEF Spec

-------------------------------------------------------------------------------
(* No outdated row is current: the primary key and CurrentIsNewest are       *)
(* inductive with TypeOK. Only between an insert and its seal, or after an    *)
(* insert whose seal never came, may two rows be current.                    *)

\* claim_pkey, on the one axis.
PrimaryKey == \A r, q \in claims : r.from = q.from => r = q

CurrentInv == TypeOK /\ PrimaryKey /\ CurrentIsNewest

\* A step that leaves the table alone, and moves no ingester away from its seal
\* unless it tears the upsert, keeps the invariant.
LEMMA SameClaims ==
  ASSUME CurrentInv, claims' = claims, torn' = torn,
         \A i \in Ingesters : proc[i].at = "seal" => proc'[i].at = "seal"
  PROVE  PrimaryKey' /\ CurrentIsNewest'
BY DEF CurrentInv, PrimaryKey, CurrentIsNewest

\* The insert leaves an ingester at its seal, and takes the place of the row with
\* its key.
LEMMA InsertKeeps ==
  ASSUME CurrentInv, NEW i \in Ingesters, Insert(i)
  PROVE  PrimaryKey' /\ CurrentIsNewest'
<1>1. proc'[i].at = "seal"
  BY StageFrame DEF Insert, CurrentInv, Stages
<1>2. CurrentIsNewest'
  BY <1>1 DEF CurrentIsNewest
<1> DEFINE row == [from |-> proc[i].from, value |-> proc[i].text.claim, path |-> proc[i].path,
                   current |-> \A r \in {q \in claims : q.from = proc[i].from} : r.current]
<1>3. claims' = {r \in claims : r.from # proc[i].from} \cup {row} /\ row.from = proc[i].from
  BY DEF Insert
<1> HIDE DEF row
<1>4. PrimaryKey'
  BY <1>3 DEF CurrentInv, PrimaryKey
<1> QED
  BY <1>2, <1>4

\* With the primary key, a row with none newer is newer than every other.
LEMMA NewestIsOne ==
  ASSUME CurrentInv, NEW r \in claims, Newer(r) = {}
  PROVE  \A q \in claims : q.from < r.from \/ q = r
<1> SUFFICES ASSUME NEW q \in claims
             PROVE  q.from < r.from \/ q = r
  OBVIOUS
<1>1. ~(q.from > r.from)
  BY DEF Newer
<1>2. q.from \in Nat /\ r.from \in Nat
  BY DEF CurrentInv, TypeOK, Rows
<1> QED
  BY <1>1, <1>2 DEF CurrentInv, PrimaryKey

\* The seal leaves current only rows with none newer.
LEMMA SealKeeps ==
  ASSUME CurrentInv, NEW i \in Ingesters, Seal(i)
  PROVE  PrimaryKey' /\ CurrentIsNewest'
<1>1. \A r, q \in claims' : \E r0, q0 \in claims :
        /\ r.from = r0.from /\ q.from = q0.from /\ (r0 = q0 => r = q)
        /\ r.current => Newer(r0) = {}
  <2> SUFFICES ASSUME NEW r \in claims', NEW q \in claims'
               PROVE  \E r0, q0 \in claims :
                        /\ r.from = r0.from /\ q.from = q0.from /\ (r0 = q0 => r = q)
                        /\ r.current => Newer(r0) = {}
    OBVIOUS
  <2>1. PICK r0 \in claims : r = IF Newer(r0) # {} THEN [r0 EXCEPT !.current = FALSE] ELSE r0
    BY DEF Seal
  <2>2. PICK q0 \in claims : q = IF Newer(q0) # {} THEN [q0 EXCEPT !.current = FALSE] ELSE q0
    BY DEF Seal
  <2> QED
    BY <2>1, <2>2 DEF CurrentInv, TypeOK, Rows
<1>2. PrimaryKey'
  BY <1>1 DEF CurrentInv, PrimaryKey
<1>3. CurrentIsNewest'
  BY <1>1, NewestIsOne DEF CurrentIsNewest
<1> QED
  BY <1>2, <1>3

\* The unseal makes current only a row with none newer.
LEMMA UnsealKeeps ==
  ASSUME CurrentInv, NEW i \in Ingesters, Unseal(i)
  PROVE  PrimaryKey' /\ CurrentIsNewest'
<1>1. \A r, q \in claims' : \E r0, q0 \in claims :
        /\ r.from = r0.from /\ q.from = q0.from /\ (r0 = q0 => r = q)
        /\ r.current => r0.current \/ Newer(r0) = {}
  <2> SUFFICES ASSUME NEW r \in claims', NEW q \in claims'
               PROVE  \E r0, q0 \in claims :
                        /\ r.from = r0.from /\ q.from = q0.from /\ (r0 = q0 => r = q)
                        /\ r.current => r0.current \/ Newer(r0) = {}
    OBVIOUS
  <2>1. PICK r0 \in claims : r = IF Newer(r0) = {} THEN [r0 EXCEPT !.current = TRUE] ELSE r0
    BY DEF Unseal
  <2>2. PICK q0 \in claims : q = IF Newer(q0) = {} THEN [q0 EXCEPT !.current = TRUE] ELSE q0
    BY DEF Unseal
  <2> QED
    BY <2>1, <2>2 DEF CurrentInv, TypeOK, Rows
<1>2. PrimaryKey'
  BY <1>1 DEF CurrentInv, PrimaryKey
<1>3. ASSUME ~torn', \A j \in Ingesters : proc'[j].at # "seal"
      PROVE  ~torn /\ \A j \in Ingesters : proc[j].at # "seal"
  BY <1>3, FinishFrame DEF Unseal, CurrentInv
<1>4. CurrentIsNewest'
  <2> SUFFICES ASSUME ~torn', \A j \in Ingesters : proc'[j].at # "seal",
                      NEW r \in claims', NEW q \in claims', r.current
               PROVE  q.from < r.from \/ q = r
    BY DEF CurrentIsNewest
  <2>1. PICK r0, q0 \in claims :
          /\ r.from = r0.from /\ q.from = q0.from /\ (r0 = q0 => r = q)
          /\ r.current => r0.current \/ Newer(r0) = {}
    BY <1>1
  <2>2. q0.from < r0.from \/ q0 = r0
    BY <1>3, <2>1, NewestIsOne DEF CurrentInv, CurrentIsNewest
  <2> QED
    BY <2>1, <2>2
<1> QED
  BY <1>2, <1>4

LEMMA CurrentStep == CurrentInv /\ [Next]_vars => CurrentInv'
<1> SUFFICES ASSUME CurrentInv, [Next]_vars
             PROVE  PrimaryKey' /\ CurrentIsNewest'
  BY TypeStep DEF CurrentInv
<1> USE DEF CurrentInv
<1>1. ASSUME NEW p \in Notes, NEW v \in Values \cup {None}, Write(p, v)
      PROVE  PrimaryKey' /\ CurrentIsNewest'
  BY <1>1, SameClaims DEF Write
<1>2. ASSUME NEW p \in Notes, Remove(p)
      PROVE  PrimaryKey' /\ CurrentIsNewest'
  BY <1>2, SameClaims DEF Remove
<1>3. ASSUME NEW i \in Ingesters, NEW p \in Notes, Read(i, p) \/ Delete(i, p)
      PROVE  PrimaryKey' /\ CurrentIsNewest'
  BY <1>3, SameClaims DEF Read, Delete, TypeOK
<1>4. ASSUME NEW i \in Ingesters, Ingest(i)
      PROVE  PrimaryKey' /\ CurrentIsNewest'
  <2>1. CASE Stat(i)
    BY <2>1, SameClaims DEF Stat, TypeOK
  <2>2. CASE Digest(i)
    BY <2>2, SameClaims, StageFrame, FinishFrame DEF Digest, Stages
  <2>3. CASE Touch(i)
    BY <2>3, SameClaims, FinishFrame DEF Touch
  <2>4. CASE StoreDocument(i)
    BY <2>4, SameClaims, StageFrame DEF StoreDocument, Stages
  <2>5. CASE Extract(i)
    BY <2>5, SameClaims, FinishFrame DEF Extract, TypeOK
  <2>6. CASE Probe(i)
    BY <2>6, SameClaims, StageFrame, FinishFrame DEF Probe, Stages
  <2>7. CASE Insert(i)
    BY <2>7, InsertKeeps
  <2>8. CASE Seal(i)
    BY <2>8, SealKeeps
  <2>9. CASE Unseal(i)
    BY <2>9, UnsealKeeps
  <2>10. CASE Declaim(i)
    BY <2>10, FinishFrame DEF Declaim, PrimaryKey, CurrentIsNewest
  <2> QED
    BY <1>4, <2>1, <2>2, <2>3, <2>4, <2>5, <2>6, <2>7, <2>8, <2>9, <2>10 DEF Ingest
<1>5. ASSUME NEW i \in Ingesters, Abort(i)
      PROVE  PrimaryKey' /\ CurrentIsNewest'
  BY <1>5, FinishFrame DEF Abort, PrimaryKey, CurrentIsNewest
<1>6. CASE UNCHANGED vars
  BY <1>6, SameClaims DEF vars
<1> QED
  BY <1>1, <1>2, <1>3, <1>4, <1>5, <1>6 DEF Next

\* Temporal authority, with any number of ingesters and any interleaving of their
\* statements: unless an upsert was cut short before its seal, no row but the
\* newest is current outside an upsert.
THEOREM NewestIsCurrent == Spec => []CurrentIsNewest
<1>1. Init => CurrentInv
  BY TypeInit DEF Init, CurrentInv, PrimaryKey, CurrentIsNewest
<1>2. CurrentInv => CurrentIsNewest
  BY DEF CurrentInv
<1> QED
  BY <1>1, <1>2, CurrentStep, PTL DEF Spec

-------------------------------------------------------------------------------
(* Claims keep their document under one ingester. The strengthening says where *)
(* that one stands: past its upsert_document the row it is to hang claims on   *)
(* is there, and a row taken away leaves it at the delete of the claims.       *)

Writing == {"extract", "probe", "insert", "seal", "unseal"}
OneWorks(i) ==
  /\ \A j \in Ingesters \ {i} : proc[j].at = "idle"
  /\ proc[i].at \in Writing => Stored(proc[i].path)
  /\ \A r \in claims : \/ r.path \in cut \/ Stored(r.path)
                       \/ proc[i].at = "declaim" /\ proc[i].path = r.path
OwnerInv == TypeOK /\ \A i \in Ingesters : setup.ingesters = {i} => OneWorks(i)

\* The stages of the sole ingester.
LEMMA IngestKeepsOwner ==
  ASSUME TypeOK, NEW i \in Ingesters, OneWorks(i), Ingest(i)
  PROVE  OneWorks(i)'
<1> USE DEF OneWorks, Writing
<1>1. CASE Stat(i)
  BY <1>1 DEF Stat, Stored, TypeOK
<1>2. CASE Digest(i)
  BY <1>2, StageFrame DEF Digest, Stages, Stored
<1>3. CASE Touch(i)
  <2>1. \A p \in Notes : Stored(p) => Stored(p)'
    <3>1. \A p \in Notes : docs'[p] # docs[p] => docs'[p] \in Documents
      BY <1>3 DEF Touch, Stored, TypeOK, Documents, Procs
    <3> QED
      BY <3>1, ClaimAssumption DEF Stored
  <2> QED
    BY <1>3, <2>1, FinishFrame DEF Touch, TypeOK, Rows
<1>4. CASE StoreDocument(i)
  <2>1. \A p \in Notes : Stored(p) => Stored(p)'
    <3>1. \A p \in Notes : docs'[p] # docs[p] => docs'[p] \in Documents
      BY <1>4 DEF StoreDocument, TypeOK, Documents, Procs
    <3> QED
      BY <3>1, ClaimAssumption DEF Stored
  <2>2. Stored(proc[i].path)'
    <3>1. docs'[proc[i].path] \in Documents
      BY <1>4 DEF StoreDocument, TypeOK, Documents, Procs
    <3>2. proc'[i].path = proc[i].path
      BY <1>4, StageFrame DEF StoreDocument, Stages
    <3> QED
      BY <3>1, <3>2, ClaimAssumption DEF Stored
  <2>3. /\ proc'[i].at = "extract"
        /\ \A j \in Ingesters \ {i} : proc'[j] = proc[j]
    BY <1>4, StageFrame DEF StoreDocument, Stages
  <2>4. \A r \in claims : r.path \in cut \/ Stored(r.path)
    BY <1>4 DEF StoreDocument
  <2>5. \A r \in claims : r.path \in Notes
    BY DEF TypeOK, Rows
  <2>6. claims' = claims /\ cut' = cut
    BY <1>4 DEF StoreDocument
  <2> QED
    <3>1. \A j \in Ingesters \ {i} : proc'[j].at = "idle"
      BY <2>3
    <3>2. \A r \in claims' : r.path \in cut' \/ Stored(r.path)'
      BY <2>1, <2>4, <2>5, <2>6
    <3> QED
      BY <2>2, <2>3, <3>1, <3>2
<1>5. CASE Extract(i)
  <2>1. Stored(proc[i].path) /\ proc[i].at = "extract" /\ docs' = docs /\ claims' = claims
    BY <1>5 DEF Extract
  <2>2. \A r \in claims : r.path \in cut \/ Stored(r.path)
    BY <2>1
  <2>3. CASE Finish(i) /\ cut' = Mended(proc[i].path)
    BY <2>1, <2>2, <2>3, FinishFrame DEF Stored, Mended
  <2>4. CASE /\ cut' = cut /\ proc'[i].at = "probe" /\ proc'[i].path = proc[i].path
             /\ \A j \in Ingesters \ {i} : proc'[j] = proc[j]
    BY <2>1, <2>2, <2>4 DEF Stored
  <2>5. CASE proc[i].text.claim = None
    BY <1>5, <2>3, <2>5 DEF Extract
  <2>6. CASE proc[i].text.claim # None
    <3>1. PICK t : proc' = [proc EXCEPT ![i].at = "probe", ![i].from = t]
      BY <1>5, <2>6 DEF Extract
    <3>2. cut' = cut
      BY <1>5, <2>6 DEF Extract
    <3> QED
      BY <2>4, <3>1, <3>2 DEF TypeOK, Procs
  <2> QED
    BY <2>5, <2>6
<1>6. CASE Probe(i)
  BY <1>6, StageFrame, FinishFrame DEF Probe, Stages, Stored, Mended
<1>7. CASE Insert(i)
  BY <1>7, StageFrame DEF Insert, Stages, Stored
<1>8. CASE Seal(i)
  BY <1>8, StageFrame DEF Seal, Stages, Stored, TypeOK, Rows
<1>9. CASE Unseal(i)
  BY <1>9, FinishFrame DEF Unseal, Stored, TypeOK, Rows
<1>10. CASE Declaim(i)
  BY <1>10, FinishFrame DEF Declaim, Stored
<1> QED
  BY <1>1, <1>2, <1>3, <1>4, <1>5, <1>6, <1>7, <1>8, <1>9, <1>10 DEF Ingest

LEMMA OwnerStep == OwnerInv /\ [Next]_vars => OwnerInv'
<1> SUFFICES ASSUME OwnerInv, [Next]_vars, NEW i \in Ingesters, setup'.ingesters = {i}
             PROVE  OneWorks(i)'
  BY TypeStep DEF OwnerInv
<1>1. TypeOK /\ TypeOK'
  BY TypeStep DEF OwnerInv
<1>2. setup.ingesters = {i}
  BY <1>1 DEF Next, vars, Write, Remove, Read, Delete, Ingest, Abort, TypeOK, Setups, Stat,
       Digest, Touch, StoreDocument, Extract, Probe, Insert, Seal, Unseal, Declaim
<1>3. OneWorks(i)
  BY <1>2 DEF OwnerInv
<1>4. ASSUME NEW p \in Notes, NEW v \in Values \cup {None}, Write(p, v)
      PROVE  OneWorks(i)'
  BY <1>3, <1>4 DEF Write, OneWorks, Stored
<1>5. ASSUME NEW p \in Notes, Remove(p)
      PROVE  OneWorks(i)'
  BY <1>3, <1>5 DEF Remove, OneWorks, Stored
<1>6. ASSUME NEW j \in Ingesters, NEW p \in Notes, Read(j, p)
      PROVE  OneWorks(i)'
  BY <1>1, <1>2, <1>3, <1>6 DEF Read, OneWorks, Writing, Stored, TypeOK
<1>7. ASSUME NEW j \in Ingesters, NEW p \in Notes, Delete(j, p)
      PROVE  OneWorks(i)'
  BY <1>1, <1>2, <1>3, <1>7 DEF Delete, OneWorks, Writing, Stored, TypeOK, Rows
<1>8. ASSUME NEW j \in Ingesters, Ingest(j)
      PROVE  OneWorks(i)'
  <2>1. proc[j].at # "idle"
    BY <1>8 DEF Ingest, Stat, Digest, Touch, StoreDocument, Extract, Probe, Insert, Seal,
         Unseal, Declaim
  <2>2. j = i
    BY <1>3, <2>1 DEF OneWorks
  <2> QED
    BY <1>1, <1>3, <1>8, <2>2, IngestKeepsOwner
<1>9. ASSUME NEW j \in Ingesters, Abort(j)
      PROVE  OneWorks(i)'
  <2>1. j = i
    BY <1>3, <1>9 DEF OneWorks, Abort
  <2> QED
    BY <1>1, <1>3, <1>9, <2>1, FinishFrame DEF Abort, OneWorks, Writing, Stored
<1>10. CASE UNCHANGED vars
  BY <1>3, <1>10 DEF vars, OneWorks, Stored
<1> QED
  BY <1>4, <1>5, <1>6, <1>7, <1>8, <1>9, <1>10 DEF Next

\* Under one ingester, which is what sync_lock gives, no claim outlives its document
\* except between the two deletes of delete_document or when these, or the ingest
\* of that note, were cut short.
THEOREM ProvenanceStays == Spec => []ProvenanceLives
<1>1. Init => OwnerInv
  BY TypeInit DEF Init, OwnerInv, OneWorks, Writing, Idle
<1>2. OwnerInv => ProvenanceLives
  BY DEF OwnerInv, OneWorks, ProvenanceLives, Sole
<1> QED
  BY <1>1, <1>2, OwnerStep, PTL DEF Spec
-------------------------------------------------------------------------------
(* What is current is what its note said, under one ingester. Of the rows of a *)
(* note only the latest can be current or become so, and it says what the      *)
(* document row was made of, until the next ingest of the note is about to     *)
(* change it. That the next row of a note is its latest, and takes the place   *)
(* of no other note's, follows from the times: every tick of the clock is      *)
(* given to one note, and mtimes of a note only grow.                          *)

\* Past the mtime, and before the document row.
Reading == {"digest", "touch", "document"}

\* The newest row of its note.
Latest(r) == \A q \in claims : q.path = r.path => q.from <= r.from

\* What the ingest under way carries is what it has stored.
Carries(i) ==
  /\ proc[i].at \in Writing =>
       docs[proc[i].path].sha = proc[i].text /\ (proc[i].at # "extract" => proc[i].text.claim # None)
  /\ proc[i].at \in {"probe", "insert"} => proc[i].from = docs[proc[i].path].updated
  /\ proc[i].at = "unseal" => ~torn

\* The times of a note: rows, document, ingest under way and file, in this order.
Ordered(i) ==
  /\ \A p \in Notes : Exists(p) => files[p].at <= clock
  /\ \A p \in Notes : Stored(p) => docs[p].updated <= clock
  /\ proc[i].at \in Reading => proc[i].mtime <= clock
  /\ \A r \in claims : r.from <= clock
  /\ \A p \in Notes : Exists(p) /\ Stored(p) => docs[p].updated <= files[p].at
  /\ \A p \in Notes : proc[i].at \in Reading /\ proc[i].path = p /\ Exists(p) =>
       proc[i].mtime <= files[p].at
  /\ \A r \in claims : Exists(r.path) => r.from <= files[r.path].at
  /\ \A r \in claims : Stored(r.path) => r.from <= docs[r.path].updated
  /\ \A r \in claims : proc[i].at \in Reading /\ proc[i].path = r.path => r.from <= proc[i].mtime

\* Whose the ticks of the clock are.
Owners == [Nat -> Notes \cup {None}]
OwnedBy(own, i) ==
  /\ \A p \in Notes : Exists(p) => own[files[p].at] = p
  /\ \A p \in Notes : Stored(p) => own[docs[p].updated] = p
  /\ proc[i].at \in Reading => own[proc[i].mtime] = proc[i].path
  /\ \A r \in claims : own[r.from] = r.path
Owned(i) == \E own \in Owners : OwnedBy(own, i)

OnlyLatestCurrent(i) ==
  \A r \in claims : r.current /\ r.path \notin cut =>
    Latest(r) \/ (proc[i].at = "seal" /\ proc[i].path = r.path)

LatestTold(i) ==
  \A r \in claims : Latest(r) /\ Stored(r.path) =>
    \/ docs[r.path].sha.claim \in {r.value, None}
    \/ proc[i].path = r.path /\ proc[i].at \in {"extract", "probe", "insert"}
    \/ r.path \in cut /\ ~(proc[i].path = r.path /\ proc[i].at \in {"seal", "unseal"})

Told(i) == Carries(i) /\ Ordered(i) /\ Owned(i) /\ OnlyLatestCurrent(i) /\ LatestTold(i)

\* Moving an ingester on changes nothing it carries.
LEMMA StageCarries ==
  ASSUME TypeOK, NEW i \in Ingesters, NEW s \in Stages, Stage(i, s)
  PROVE  /\ proc'[i].at = s /\ proc'[i].path = proc[i].path /\ proc'[i].text = proc[i].text
         /\ proc'[i].mtime = proc[i].mtime /\ proc'[i].from = proc[i].from
BY DEF TypeOK, Stage, Stages, Procs

\* The types the steps below compare.
LEMMA TimesAreNumbers ==
  ASSUME TypeOK
  PROVE  /\ clock \in Nat
         /\ \A p \in Notes : Exists(p) => files[p] \in Texts /\ files[p].at \in Nat
         /\ \A p \in Notes : Stored(p) => docs[p] \in Documents /\ docs[p].updated \in Nat
                                          /\ docs[p].sha \in Texts
         /\ \A r \in claims : r \in Rows /\ r.from \in Nat /\ r.path \in Notes /\ r.value \in Values
         /\ \A i \in Ingesters : /\ proc[i] \in Procs
                                 /\ proc[i].mtime \in Nat /\ proc[i].from \in Nat
                                 /\ proc[i].text \in Texts
                                 /\ proc[i].at # "idle" => proc[i].path \in Notes
         /\ None \notin Values /\ None \notin Notes /\ None \notin Texts /\ None \notin Documents
BY ClaimAssumption DEF TypeOK, Exists, Stored, Texts, Documents, Rows, Procs

\* The clock ticks for note p: nothing was stamped with that time before.
LEMMA Tick ==
  ASSUME TypeOK, NEW i \in Ingesters, Ordered(i), Owned(i), NEW p \in Notes
  PROVE  \E own \in Owners : OwnedBy(own, i) /\ own[clock + 1] = p
<1>1. PICK own \in Owners : OwnedBy(own, i)
  BY DEF Owned
<1>2. PICK now \in Nat : now = clock + 1
  BY TimesAreNumbers
<1>3. PICK own2 \in Owners : own2 = [own EXCEPT ![now] = p]
  BY DEF Owners
<1>4. own2[clock + 1] = p /\ \A t \in Nat : t <= clock => own2[t] = own[t]
  BY <1>2, <1>3, TimesAreNumbers DEF Owners
<1>5. OwnedBy(own2, i)
  BY <1>1, <1>4, TimesAreNumbers DEF OwnedBy, Ordered
<1> QED
  BY <1>4, <1>5

\* A step that leaves the rows, the documents and the cut notes alone, and stays
\* outside the stages that write.
LEMMA QuietTold ==
  ASSUME TypeOK, NEW i \in Ingesters, Carries(i), OnlyLatestCurrent(i), LatestTold(i),
         UNCHANGED <<claims, torn, cut>>,
         \A p \in Notes : Stored(p)' => Stored(p) /\ docs'[p].sha = docs[p].sha,
         \/ proc'[i] = proc[i] /\ docs' = docs
         \/ proc[i].at \notin Writing /\ proc'[i].at \notin Writing
  PROVE  Carries(i)' /\ OnlyLatestCurrent(i)' /\ LatestTold(i)'
<1>1. \A r \in claims : r.path \in Notes
  BY TimesAreNumbers
<1>2. \A r : Latest(r)' <=> Latest(r)
  BY DEF Latest
<1>3. Carries(i)'
  BY DEF Carries, Writing
<1>4. OnlyLatestCurrent(i)'
  BY <1>2 DEF OnlyLatestCurrent, Writing
<1>5. LatestTold(i)'
  BY <1>1, <1>2 DEF LatestTold, Writing
<1> QED
  BY <1>3, <1>4, <1>5

\* A write stamps the file of one note.
LEMMA WriteTold ==
  ASSUME TypeOK, NEW i \in Ingesters, Told(i), NEW p \in Notes, NEW v \in Values \cup {None},
         Write(p, v)
  PROVE  Told(i)'
<1>1. /\ files \in [Notes -> Texts \cup {None}] /\ clock \in Nat /\ clock' = clock + 1
      /\ UNCHANGED <<missed, docs, claims, proc, torn, cut>>
  BY DEF TypeOK, Write
<1>2. [claim |-> v, at |-> clock + 1] \in Texts
  BY <1>1 DEF Texts
<1>3. /\ files'[p].at = clock + 1 /\ Exists(p)'
      /\ \A q \in Notes \ {p} : files'[q] = files[q]
  BY <1>1, <1>2, TimesAreNumbers DEF Write, Exists
<1>4. Ordered(i)'
  BY <1>1, <1>3, TimesAreNumbers DEF Told, Ordered, Exists, Stored, Reading
<1>5. Owned(i)'
  <2>1. PICK own \in Owners : OwnedBy(own, i) /\ own[clock + 1] = p
    BY Tick DEF Told
  <2>2. OwnedBy(own, i)'
    BY <1>1, <1>3, <2>1 DEF OwnedBy, Exists, Stored
  <2> QED
    BY <2>2 DEF Owned
<1>6. Carries(i)' /\ OnlyLatestCurrent(i)' /\ LatestTold(i)'
  BY <1>1, QuietTold DEF Told, Stored
<1> QED
  BY <1>4, <1>5, <1>6 DEF Told

\* Steps that stamp nothing: every time there is after them was there before, of
\* the same note, and in the same place of the order.
LEMMA SameTimes ==
  ASSUME TypeOK, NEW i \in Ingesters, Ordered(i), Owned(i),
         UNCHANGED <<clock, claims>>,
         \A p \in Notes : Exists(p)' => Exists(p) /\ files'[p].at = files[p].at,
         \A p \in Notes : Stored(p)' => Stored(p) /\ docs'[p].updated = docs[p].updated,
         proc'[i].at \in Reading =>
           proc[i].at \in Reading /\ proc'[i].path = proc[i].path /\ proc'[i].mtime = proc[i].mtime
  PROVE  Ordered(i)' /\ Owned(i)'
<1>1. Ordered(i)'
  BY TimesAreNumbers DEF Ordered, Reading
<1>2. PICK own \in Owners : OwnedBy(own, i)
  BY DEF Owned
<1>3. OwnedBy(own, i)'
  BY <1>2 DEF OwnedBy
<1> QED
  BY <1>1, <1>2, <1>3 DEF Owned

\* The mtime of the note's file, which is its latest time, or a time of its own.
LEMMA StatTold ==
  ASSUME TypeOK, NEW i \in Ingesters, Told(i), Stat(i)
  PROVE  Told(i)'
<1>1. PICK p \in Notes : p = proc[i].path
  BY DEF TypeOK, Stat
<1>2. PICK t \in Nat : t = IF Exists(p) THEN files[p].at ELSE clock + 1
  BY TimesAreNumbers
<1>3. /\ p \in Notes /\ proc[i].at = "stat" /\ clock \in Nat
      /\ UNCHANGED <<files, missed, docs, claims, torn, cut>>
      /\ clock' = IF Exists(p) THEN clock ELSE clock + 1
      /\ proc' = [proc EXCEPT ![i].at = "digest", ![i].mtime = t]
  BY <1>1, <1>2 DEF TypeOK, Stat
<1>4. proc'[i].at = "digest" /\ proc'[i].path = p /\ proc'[i].mtime = t
  BY <1>1, <1>3 DEF TypeOK, Procs
<1>5. Carries(i)' /\ OnlyLatestCurrent(i)' /\ LatestTold(i)'
  BY <1>3, <1>4, QuietTold DEF Told, Stored, Writing
<1>6. \A q \in Notes : /\ Exists(q)' <=> Exists(q)
                       /\ Stored(q)' <=> Stored(q)
  BY <1>3 DEF Exists, Stored
<1>7. /\ clock' \in Nat /\ clock <= clock' /\ t \in Nat /\ t <= clock'
      /\ Exists(p) => t <= files[p].at
      /\ \A r \in claims : r.path = p => r.from <= t
  BY <1>1, <1>3, <1>2, TimesAreNumbers DEF Told, Ordered
<1>8. Ordered(i)'
  <2>1. \A r \in claims : r.from \in Nat /\ r.path \in Notes /\ r.from <= clock
    BY TimesAreNumbers DEF Told, Ordered
  <2>2. \A q \in Notes : /\ Exists(q) => files[q].at \in Nat /\ files[q].at <= clock
                         /\ Stored(q) => docs[q].updated \in Nat /\ docs[q].updated <= clock
    BY TimesAreNumbers DEF Told, Ordered
  <2>3. clock \in Nat /\ Ordered(i)
    BY TimesAreNumbers DEF Told
  <2>4. /\ \A q \in Notes : Exists(q)' => files'[q].at <= clock'
        /\ \A q \in Notes : Stored(q)' => docs'[q].updated <= clock'
        /\ \A r \in claims' : r.from <= clock'
    BY <1>3, <1>6, <1>7, <2>1, <2>2, <2>3
  <2>5. /\ \A q \in Notes : Exists(q)' /\ Stored(q)' => docs'[q].updated <= files'[q].at
        /\ \A r \in claims' : Exists(r.path)' => r.from <= files'[r.path].at
        /\ \A r \in claims' : Stored(r.path)' => r.from <= docs'[r.path].updated
    BY <1>3, <1>6, <2>1, <2>3 DEF Ordered
  <2>6. /\ proc'[i].mtime <= clock'
        /\ \A q \in Notes : proc'[i].path = q /\ Exists(q)' => proc'[i].mtime <= files'[q].at
        /\ \A r \in claims' : proc'[i].path = r.path => r.from <= proc'[i].mtime
    BY <1>3, <1>4, <1>6, <1>7
  <2> QED
    BY <2>4, <2>5, <2>6 DEF Ordered
<1>9. PICK own \in Owners : OwnedBy(own, i) /\ own[t] = p
  <2>1. CASE Exists(p)
    BY <1>3, <1>2, <2>1 DEF Told, Owned, OwnedBy
  <2>2. CASE ~Exists(p)
    BY <1>3, <1>2, <2>2, Tick DEF Told
  <2> QED
    BY <2>1, <2>2
<1>10. OwnedBy(own, i)'
  BY <1>3, <1>4, <1>6, <1>9 DEF Told, OwnedBy
<1> QED
  BY <1>5, <1>8, <1>10 DEF Told, Owned

\* touch and upsert_document give the document the mtime.
LEMMA DocumentTimes ==
  ASSUME TypeOK, NEW i \in Ingesters, Ordered(i), Owned(i), proc[i].at \in Reading,
         UNCHANGED <<clock, files, claims>>, proc'[i].at \notin Reading,
         NEW p \in Notes, p = proc[i].path,
         \A q \in Notes \ {p} : docs'[q] = docs[q],
         docs'[p] # None => docs'[p].updated = proc[i].mtime
  PROVE  Ordered(i)' /\ Owned(i)'
<1>1. \A q \in Notes : Stored(q)' =>
        \/ q # p /\ Stored(q) /\ docs'[q].updated = docs[q].updated
        \/ q = p /\ docs'[q].updated = proc[i].mtime
  BY DEF Stored
<1>2. \A q \in Notes : Exists(q)' <=> Exists(q)
  BY DEF Exists
<1>3. Ordered(i)'
  BY <1>1, <1>2, TimesAreNumbers DEF Ordered
<1>4. PICK own \in Owners : OwnedBy(own, i)
  BY DEF Owned
<1>5. OwnedBy(own, i)'
  BY <1>1, <1>2, <1>4 DEF OwnedBy
<1> QED
  BY <1>3, <1>5 DEF Owned

\* A touch keeps the digest.
LEMMA TouchTold ==
  ASSUME TypeOK, NEW i \in Ingesters, Told(i), Touch(i)
  PROVE  Told(i)'
<1>1. PICK p \in Notes : p = proc[i].path
  BY DEF TypeOK, Touch
<1>2. /\ proc[i].at = "touch" /\ proc'[i].at = "idle"
      /\ docs \in [Notes -> Documents \cup {None}]
      /\ UNCHANGED <<files, missed, claims, clock, torn, cut>>
      /\ docs' = IF Stored(p) THEN [docs EXCEPT ![p].updated = proc[i].mtime] ELSE docs
  BY <1>1, FinishFrame DEF TypeOK, Touch
<1>3. /\ \A q \in Notes \ {p} : docs'[q] = docs[q]
      /\ Stored(p) => docs'[p].updated = proc[i].mtime /\ docs'[p].sha = docs[p].sha
      /\ ~Stored(p) => docs'[p] = None
  BY <1>2, TimesAreNumbers DEF Documents, Stored
<1>4. \A q \in Notes : Stored(q)' => Stored(q) /\ docs'[q].sha = docs[q].sha
  BY <1>3 DEF Stored
<1>5. Carries(i)' /\ OnlyLatestCurrent(i)' /\ LatestTold(i)'
  BY <1>2, <1>4, QuietTold DEF Told, Writing
<1>6. Ordered(i)' /\ Owned(i)'
  BY <1>1, <1>2, <1>3, DocumentTimes DEF Told, Reading, Stored
<1> QED
  BY <1>5, <1>6 DEF Told

\* From upsert_document on, the document row says more than the claim rows do.
LEMMA StoreDocumentTold ==
  ASSUME TypeOK, NEW i \in Ingesters, Told(i), StoreDocument(i)
  PROVE  Told(i)'
<1>1. PICK p \in Notes : p = proc[i].path
  BY DEF TypeOK, StoreDocument
<1>2. /\ proc[i].at = "document" /\ docs \in [Notes -> Documents \cup {None}]
      /\ proc'[i].at = "extract" /\ proc'[i].path = p /\ proc'[i].text = proc[i].text
      /\ UNCHANGED <<files, missed, claims, clock, torn, cut>>
      /\ docs' = [docs EXCEPT ![p] = [sha |-> proc[i].text, updated |-> proc[i].mtime]]
  BY <1>1, StageCarries DEF TypeOK, StoreDocument, Stages
<1>3. /\ \A q \in Notes \ {p} : docs'[q] = docs[q]
      /\ docs'[p].updated = proc[i].mtime /\ docs'[p].sha = proc[i].text
  BY <1>2
<1>4. Ordered(i)' /\ Owned(i)'
  BY <1>1, <1>2, <1>3, DocumentTimes DEF Told, Reading
<1>5. Carries(i)'
  BY <1>2, <1>3 DEF Carries, Writing
<1>6. \A r : Latest(r)' <=> Latest(r)
  BY <1>2 DEF Latest
<1>7. OnlyLatestCurrent(i)'
  BY <1>2, <1>6 DEF Told, OnlyLatestCurrent
<1>8. LatestTold(i)'
  BY <1>2, <1>3, <1>6, TimesAreNumbers DEF Told, LatestTold, Stored
<1> QED
  BY <1>4, <1>5, <1>7, <1>8 DEF Told
\* Steps that stamp nothing and stay outside the stages that write.
LEMMA QuietStepTold ==
  ASSUME TypeOK, NEW i \in Ingesters, Told(i),
         UNCHANGED <<clock, claims, torn, cut>>,
         \A p \in Notes : Exists(p)' => Exists(p) /\ files'[p].at = files[p].at,
         \A p \in Notes : Stored(p)' => Stored(p) /\ docs'[p] = docs[p],
         \/ proc'[i] = proc[i] /\ docs' = docs
         \/ proc[i].at \notin Writing /\ proc'[i].at \notin Writing,
         proc'[i].at \in Reading =>
           proc[i].at \in Reading /\ proc'[i].path = proc[i].path /\ proc'[i].mtime = proc[i].mtime
  PROVE  Told(i)'
<1>1. Carries(i)' /\ OnlyLatestCurrent(i)' /\ LatestTold(i)'
  BY QuietTold DEF Told
<1>2. Ordered(i)' /\ Owned(i)'
  BY SameTimes DEF Told
<1> QED
  BY <1>1, <1>2 DEF Told

\* A removal takes times away.
LEMMA RemoveTold ==
  ASSUME TypeOK, NEW i \in Ingesters, Told(i), NEW p \in Notes, Remove(p)
  PROVE  Told(i)'
<1>1. \A q \in Notes : Exists(q)' => Exists(q) /\ files'[q].at = files[q].at
  BY DEF Remove, Exists, TypeOK
<1>2. UNCHANGED <<docs, claims, proc, clock, torn, cut>>
  BY DEF Remove
<1> QED
  BY <1>1, <1>2, QuietStepTold DEF Stored

\* A read only begins.
LEMMA ReadTold ==
  ASSUME TypeOK, NEW i \in Ingesters, Told(i), NEW p \in Notes, Read(i, p)
  PROVE  Told(i)'
<1>1. proc[i].at = "idle" /\ proc'[i].at = "stat"
  BY DEF Read, TypeOK
<1>2. UNCHANGED <<files, docs, claims, clock, torn, cut>>
  BY DEF Read
<1> QED
  BY <1>1, <1>2, QuietStepTold DEF Stored, Exists, Reading, Writing

\* The first statement of a delete takes the document row away.
LEMMA DeleteTold ==
  ASSUME TypeOK, NEW i \in Ingesters, Told(i), NEW p \in Notes, Delete(i, p)
  PROVE  Told(i)'
<1>1. proc[i].at = "idle" /\ proc'[i].at = "declaim"
  BY DEF Delete, TypeOK
<1>2. UNCHANGED <<files, claims, clock, torn, cut>>
  BY DEF Delete
<1>3. \A q \in Notes : Stored(q)' => Stored(q) /\ docs'[q] = docs[q]
  BY DEF Delete, Stored, TypeOK
<1> QED
  BY <1>1, <1>2, <1>3, QuietStepTold DEF Exists, Reading, Writing

\* get_doc_sha decides and changes nothing.
LEMMA DigestTold ==
  ASSUME TypeOK, NEW i \in Ingesters, Told(i), Digest(i)
  PROVE  Told(i)'
<1>1. /\ proc[i].at = "digest" /\ proc'[i].at \in {"touch", "document"}
      /\ proc'[i].path = proc[i].path /\ proc'[i].mtime = proc[i].mtime
  BY StageCarries DEF Digest, Stages
<1>2. UNCHANGED <<files, docs, claims, clock, torn, cut>>
  BY DEF Digest
<1> QED
  BY <1>1, <1>2, QuietStepTold DEF Stored, Exists, Reading, Writing

\* An ingest that ends without an upsert, the latest row of its note being right.
LEMMA FinishTold ==
  ASSUME TypeOK, CurrentIsNewest, NEW i \in Ingesters, OneWorks(i), Told(i),
         proc[i].at \in {"extract", "probe"}, proc'[i].at = "idle",
         UNCHANGED <<files, docs, claims, clock, torn>>,
         NEW p \in Notes, p = proc[i].path, cut' = Mended(p),
         p \notin cut' => \A r \in claims : Latest(r) /\ r.path = p =>
                            docs[p].sha.claim \in {r.value, None}
  PROVE  Told(i)'
<1>1. Ordered(i)' /\ Owned(i)'
  BY SameTimes DEF Told, Exists, Stored, Reading
<1>2. Carries(i)'
  BY DEF Carries, Writing
<1>3. \A r : Latest(r)' <=> Latest(r)
  BY DEF Latest
<1>4. OnlyLatestCurrent(i)'
  <2> SUFFICES ASSUME NEW r \in claims, r.current, r.path \notin cut'
               PROVE  Latest(r)
    BY <1>3 DEF OnlyLatestCurrent
  <2>1. CASE r.path \notin cut
    BY <2>1 DEF Told, OnlyLatestCurrent
  <2>2. CASE r.path \in cut
    <3>1. ~torn
      BY <2>2 DEF Mended
    <3>2. \A j \in Ingesters : proc[j].at # "seal"
      BY DEF OneWorks
    <3>3. \A q \in claims : q.from < r.from \/ q = r
      BY <3>1, <3>2 DEF CurrentIsNewest
    <3> QED
      BY <3>3, TimesAreNumbers DEF Latest
  <2> QED
    BY <2>1, <2>2
<1>5. LatestTold(i)'
  <2>1. \A q \in Notes \ {p} : q \in cut' <=> q \in cut
    BY DEF Mended
  <2> QED
    BY <1>3, <2>1, TimesAreNumbers DEF Told, LatestTold, Stored
<1> QED
  BY <1>1, <1>2, <1>4, <1>5 DEF Told

\* The digest the row was made of is that of the text extracted.
LEMMA ExtractTold ==
  ASSUME TypeOK, CurrentIsNewest, NEW i \in Ingesters, OneWorks(i), Told(i), Extract(i)
  PROVE  Told(i)'
<1>1. PICK p \in Notes : p = proc[i].path
  BY DEF TypeOK, Extract
<1>2. /\ proc[i].at = "extract" /\ Stored(p) /\ docs[p].sha = proc[i].text
      /\ UNCHANGED <<files, docs, claims, torn>>
  BY <1>1 DEF Extract, OneWorks, Writing, Told, Carries
<1>3. CASE proc[i].text.claim = None
  <2>1. proc'[i].at = "idle" /\ cut' = Mended(p) /\ clock' = clock
    BY <1>1, <1>3, FinishFrame DEF Extract
  <2> QED
    BY <1>1, <1>2, <1>3, <2>1, FinishTold
<1>4. CASE proc[i].text.claim # None
  <2>1. /\ clock' = clock /\ cut' = cut
        /\ proc' = [proc EXCEPT ![i].at = "probe", ![i].from = docs[p].updated]
    BY <1>1, <1>2, <1>4 DEF Extract
  <2>2. /\ proc'[i].at = "probe" /\ proc'[i].path = p /\ proc'[i].text = proc[i].text
        /\ proc'[i].from = docs[p].updated
    BY <1>1, <2>1 DEF TypeOK, Procs
  <2>3. Ordered(i)' /\ Owned(i)'
    BY <1>2, <2>1, <2>2, SameTimes DEF Told, Exists, Stored, Reading
  <2>4. Carries(i)'
    BY <1>2, <1>4, <2>2 DEF Carries
  <2>5. \A r : Latest(r)' <=> Latest(r)
    BY <1>2 DEF Latest
  <2>6. OnlyLatestCurrent(i)' /\ LatestTold(i)'
    BY <1>1, <1>2, <2>1, <2>2, <2>5 DEF Told, OnlyLatestCurrent, LatestTold, Stored
  <2> QED
    BY <2>3, <2>4, <2>6 DEF Told
<1> QED
  BY <1>3, <1>4
\* An unchanged claim: the current row that says it is the latest of its note.
LEMMA ProbeTold ==
  ASSUME TypeOK, PrimaryKey, CurrentIsNewest, NEW i \in Ingesters, OneWorks(i), Told(i), Probe(i)
  PROVE  Told(i)'
<1>1. PICK p \in Notes : p = proc[i].path
  BY DEF TypeOK, Probe
<1>2. /\ proc[i].at = "probe" /\ Stored(p) /\ docs[p].sha = proc[i].text
      /\ UNCHANGED <<files, docs, claims, clock, torn>>
  BY <1>1 DEF Probe, OneWorks, Writing, Told, Carries
<1>3. CASE Stage(i, "insert") /\ UNCHANGED cut
  <2>1. /\ proc'[i].at = "insert" /\ proc'[i].path = p /\ proc'[i].text = proc[i].text
        /\ proc'[i].from = proc[i].from
    BY <1>1, <1>3, StageCarries DEF Stages
  <2>2. Ordered(i)' /\ Owned(i)'
    BY <1>2, <2>1, SameTimes DEF Told, Exists, Stored, Reading
  <2>3. Carries(i)'
    BY <1>1, <1>2, <2>1 DEF Told, Carries, Writing
  <2>4. \A r : Latest(r)' <=> Latest(r)
    BY <1>2 DEF Latest
  <2>5. OnlyLatestCurrent(i)' /\ LatestTold(i)'
    BY <1>1, <1>2, <1>3, <2>1, <2>4 DEF Told, OnlyLatestCurrent, LatestTold, Stored
  <2> QED
    BY <2>2, <2>3, <2>5 DEF Told
<1>4. ASSUME NEW r \in claims, r.current, r.value = proc[i].text.claim, r.path = p,
             Finish(i), cut' = Mended(p)
      PROVE  Told(i)'
  <2>1. ASSUME p \notin cut', NEW q \in claims, Latest(q), q.path = p
        PROVE  docs[p].sha.claim \in {q.value, None}
    <3>1. q = r
      <4>1. r.from \in Nat /\ q.from \in Nat /\ r.from <= q.from
        BY <1>4, <2>1, TimesAreNumbers DEF Latest
      <4>2. CASE torn
        <5>1. Latest(r)
          BY <1>2, <1>4, <2>1, <4>2 DEF Mended, Told, OnlyLatestCurrent
        <5>2. q.from <= r.from
          BY <1>4, <2>1, <5>1 DEF Latest
        <5> QED
          BY <4>1, <5>2 DEF PrimaryKey
      <4>3. CASE ~torn
        <5>1. \A j \in Ingesters : proc[j].at # "seal"
          BY <1>2 DEF OneWorks
        <5>2. q.from < r.from \/ q = r
          BY <1>4, <4>3, <5>1 DEF CurrentIsNewest
        <5> QED
          BY <4>1, <5>2
      <4> QED
        BY <4>2, <4>3
    <3> QED
      BY <1>2, <1>4, <3>1
  <2>2. proc'[i].at = "idle"
    BY <1>4, FinishFrame
  <2> QED
    BY <1>1, <1>2, <1>4, <2>1, <2>2, FinishTold
<1> QED
  BY <1>1, <1>3, <1>4 DEF Probe

\* The insert puts a row at the document's time: the latest of its note, in the
\* place of no other note's.
LEMMA InsertTold ==
  ASSUME TypeOK, NEW i \in Ingesters, OneWorks(i), Told(i), Insert(i)
  PROVE  Told(i)'
<1>1. PICK p \in Notes : p = proc[i].path
  BY DEF TypeOK, Insert
<1>2. /\ proc[i].at = "insert" /\ Stored(p) /\ docs[p].sha = proc[i].text
      /\ proc[i].text.claim # None /\ proc[i].from = docs[p].updated
      /\ UNCHANGED <<files, docs, clock, torn, cut>>
  BY <1>1 DEF Insert, OneWorks, Writing, Told, Carries
<1>3. /\ proc'[i].at = "seal" /\ proc'[i].path = p /\ proc'[i].text = proc[i].text
  BY <1>1, <1>2, StageCarries DEF Insert, Stages
<1> DEFINE new == [from |-> proc[i].from, value |-> proc[i].text.claim, path |-> proc[i].path,
                   current |-> \A r \in {q \in claims : q.from = proc[i].from} : r.current]
<1>4. /\ claims' = {r \in claims : r.from # proc[i].from} \cup {new}
      /\ new.from = proc[i].from /\ new.value = proc[i].text.claim /\ new.path = proc[i].path
  BY DEF Insert
<1>5. PICK row : /\ claims' = {r \in claims : r.from # docs[p].updated} \cup {row}
                 /\ row.from = docs[p].updated /\ row.value = docs[p].sha.claim /\ row.path = p
  BY <1>1, <1>2, <1>4, ZenonT(60)
<1> HIDE DEF new
<1>6. PICK own \in Owners : OwnedBy(own, i)
  BY DEF Told, Owned
<1>7. \A r \in claims : r.path # p => r \in claims'
  BY <1>2, <1>5, <1>6 DEF OwnedBy
<1>8. \A r \in claims' : r = row \/ (r \in claims /\ r.from # row.from)
  BY <1>5
<1>9. Carries(i)'
  BY <1>2, <1>3 DEF Carries
<1>10. Ordered(i)'
  <2>1. /\ docs[p].updated <= clock
        /\ Exists(p) => docs[p].updated <= files[p].at
    BY <1>2 DEF Told, Ordered
  <2>2. \A q \in Notes : (Exists(q)' <=> Exists(q)) /\ (Stored(q)' <=> Stored(q))
    BY <1>2 DEF Exists, Stored
  <2> QED
    BY <1>2, <1>3, <1>5, <1>8, <2>1, <2>2, TimesAreNumbers DEF Told, Ordered, Reading
<1>11. OwnedBy(own, i)'
  BY <1>2, <1>3, <1>5, <1>6, <1>8 DEF OwnedBy, Exists, Stored, Reading
<1>12. \A r \in claims : r.path # p => (Latest(r)' <=> Latest(r))
  BY <1>5, <1>7, <1>8 DEF Latest
<1>13. OnlyLatestCurrent(i)'
  BY <1>1, <1>2, <1>3, <1>5, <1>8, <1>12 DEF Told, OnlyLatestCurrent
<1>14. LatestTold(i)'
  <2> SUFFICES ASSUME NEW r \in claims', Latest(r)', Stored(r.path)'
               PROVE  \/ docs[r.path].sha.claim \in {r.value, None}
                      \/ r.path \in cut /\ r.path # p
    BY <1>2, <1>3 DEF LatestTold
  <2>1. CASE r = row
    BY <1>5, <2>1
  <2>2. CASE r # row /\ r.path = p
    <3>1. r \in claims /\ r.from # row.from
      BY <1>8, <2>2
    <3>2. r.from \in Nat /\ row.from \in Nat /\ r.from <= row.from
      BY <1>2, <1>5, <2>2, <3>1, TimesAreNumbers DEF Told, Ordered
    <3>3. row.from <= r.from
      BY <1>5, <2>2 DEF Latest
    <3> QED
      BY <3>1, <3>2, <3>3
  <2>3. CASE r.path # p
    BY <1>1, <1>2, <1>5, <1>8, <1>12, <2>3 DEF Told, LatestTold, Stored
  <2> QED
    BY <2>1, <2>2, <2>3
<1> QED
  BY <1>9, <1>10, <1>11, <1>13, <1>14 DEF Told, Owned
\* The rows are those before but for what is current: the times and the latest rows
\* of the notes stay.
Marked(r, old) == old.from = r.from /\ old.value = r.value /\ old.path = r.path

LEMMA MarksKeepTimes ==
  ASSUME TypeOK, NEW i \in Ingesters, Told(i), UNCHANGED <<files, docs, clock>>,
         proc'[i].at \notin Reading,
         \A r \in claims' : \E q \in claims : Marked(r, q),
         \A q \in claims : \E r \in claims' : Marked(r, q)
  PROVE  /\ Ordered(i)' /\ Owned(i)'
         /\ \A r \in claims', q \in claims : Marked(r, q) => (Latest(r)' <=> Latest(q))
<1>1. \A q \in Notes : (Exists(q)' <=> Exists(q)) /\ (Stored(q)' <=> Stored(q))
  BY DEF Exists, Stored
<1>2. Ordered(i)'
  <2>1. \A r \in claims' : \E q \in claims : r.from = q.from /\ r.path = q.path
    BY DEF Marked
  <2> QED
    BY <1>1, <2>1, TimesAreNumbers DEF Told, Ordered
<1>3. PICK own \in Owners : OwnedBy(own, i)
  BY DEF Told, Owned
<1>4. OwnedBy(own, i)'
  BY <1>1, <1>3 DEF OwnedBy, Marked
<1>5. ASSUME NEW r \in claims', NEW q \in claims, Marked(r, q)
      PROVE  Latest(r)' <=> Latest(q)
  BY <1>5 DEF Latest, Marked
<1> QED
  BY <1>2, <1>4, <1>5 DEF Owned

\* The seal supersedes every row of a note but its latest.
LEMMA SealTold ==
  ASSUME TypeOK, NEW i \in Ingesters, OneWorks(i), Told(i), Seal(i)
  PROVE  Told(i)'
<1>1. PICK p \in Notes : p = proc[i].path
  BY DEF TypeOK, Seal
<1>2. /\ proc[i].at = "seal" /\ Stored(p) /\ docs[p].sha = proc[i].text
      /\ proc[i].text.claim # None
      /\ UNCHANGED <<files, docs, clock, cut>> /\ torn' = FALSE
  BY <1>1 DEF Seal, OneWorks, Writing, Told, Carries
<1>3. /\ proc'[i].at = "unseal" /\ proc'[i].path = p /\ proc'[i].text = proc[i].text
  BY <1>1, <1>2, StageCarries DEF Seal, Stages
<1>4. \A r \in claims' : \E q \in claims : Marked(r, q) /\ (r.current => q.current /\ Newer(q) = {})
  <2>1. \A r \in claims' : \E q \in claims :
          r = IF Newer(q) # {} THEN [q EXCEPT !.current = FALSE] ELSE q
    BY DEF Seal
  <2> QED
    BY <2>1, TimesAreNumbers DEF Marked, Rows
<1>5. \A q \in claims : \E r \in claims' : Marked(r, q)
  <2>1. \A q \in claims : (IF Newer(q) # {} THEN [q EXCEPT !.current = FALSE] ELSE q) \in claims'
    BY DEF Seal
  <2> QED
    BY <2>1, TimesAreNumbers DEF Marked, Rows
<1>6. /\ Ordered(i)' /\ Owned(i)'
      /\ \A r \in claims', q \in claims : Marked(r, q) => (Latest(r)' <=> Latest(q))
  BY <1>2, <1>3, <1>4, <1>5, MarksKeepTimes DEF Reading
<1>7. Carries(i)'
  BY <1>2, <1>3 DEF Carries
<1>8. \A q \in claims : Newer(q) = {} => Latest(q)
  BY TimesAreNumbers DEF Newer, Latest
<1>9. OnlyLatestCurrent(i)'
  BY <1>4, <1>6, <1>8 DEF OnlyLatestCurrent
<1>10. LatestTold(i)'
  BY <1>1, <1>2, <1>3, <1>4, <1>6 DEF Told, LatestTold, Stored, Marked
<1> QED
  BY <1>6, <1>7, <1>9, <1>10 DEF Told

\* The unseal makes current at most the latest row of a note.
LEMMA UnsealTold ==
  ASSUME TypeOK, CurrentIsNewest, NEW i \in Ingesters, OneWorks(i), Told(i), Unseal(i)
  PROVE  Told(i)'
<1>1. PICK p \in Notes : p = proc[i].path
  BY DEF TypeOK, Unseal
<1>2. /\ proc[i].at = "unseal" /\ ~torn /\ UNCHANGED <<files, docs, clock, torn>>
      /\ cut' = cut \ {p}
  BY <1>1 DEF Unseal, Told, Carries
<1>3. proc'[i].at = "idle"
  BY FinishFrame DEF Unseal
<1>4. \A r \in claims' : \E q \in claims : Marked(r, q) /\ (r.current => q.current \/ Newer(q) = {})
  <2>1. \A r \in claims' : \E q \in claims :
          r = IF Newer(q) = {} THEN [q EXCEPT !.current = TRUE] ELSE q
    BY DEF Unseal
  <2> QED
    BY <2>1, TimesAreNumbers DEF Marked, Rows
<1>5. \A q \in claims : \E r \in claims' : Marked(r, q)
  <2>1. \A q \in claims : (IF Newer(q) = {} THEN [q EXCEPT !.current = TRUE] ELSE q) \in claims'
    BY DEF Unseal
  <2> QED
    BY <2>1, TimesAreNumbers DEF Marked, Rows
<1>6. /\ Ordered(i)' /\ Owned(i)'
      /\ \A r \in claims', q \in claims : Marked(r, q) => (Latest(r)' <=> Latest(q))
  BY <1>2, <1>3, <1>4, <1>5, MarksKeepTimes DEF Reading
<1>7. Carries(i)'
  BY <1>3 DEF Carries, Writing
<1>8. \A q \in claims : q.current \/ Newer(q) = {} => Latest(q)
  <2>1. \A j \in Ingesters : proc[j].at # "seal"
    BY <1>2 DEF OneWorks
  <2>2. \A q, r \in claims : q.current => r.from < q.from \/ r = q
    BY <1>2, <2>1 DEF CurrentIsNewest
  <2> QED
    BY <2>2, TimesAreNumbers DEF Newer, Latest
<1>9. OnlyLatestCurrent(i)'
  BY <1>4, <1>6, <1>8 DEF OnlyLatestCurrent
<1>10. LatestTold(i)'
  BY <1>1, <1>2, <1>3, <1>4, <1>6 DEF Told, LatestTold, Stored, Marked
<1> QED
  BY <1>6, <1>7, <1>9, <1>10 DEF Told

\* The second statement of a delete takes every row of the note.
LEMMA DeclaimTold ==
  ASSUME TypeOK, NEW i \in Ingesters, Told(i), Declaim(i)
  PROVE  Told(i)'
<1>1. PICK p \in Notes : p = proc[i].path
  BY DEF TypeOK, Declaim
<1>2. /\ proc[i].at = "declaim" /\ UNCHANGED <<files, docs, clock, torn>>
      /\ claims' = {r \in claims : r.path # p} /\ cut' = cut \ {p}
  BY <1>1 DEF Declaim
<1>3. proc'[i].at = "idle"
  BY FinishFrame DEF Declaim
<1>4. \A q \in Notes : (Exists(q)' <=> Exists(q)) /\ (Stored(q)' <=> Stored(q))
  BY <1>2 DEF Exists, Stored
<1>5. Carries(i)'
  BY <1>3 DEF Carries, Writing
<1>6. Ordered(i)'
  BY <1>2, <1>3, <1>4, TimesAreNumbers DEF Told, Ordered, Reading
<1>7. PICK own \in Owners : OwnedBy(own, i)
  BY DEF Told, Owned
<1>8. OwnedBy(own, i)'
  BY <1>2, <1>3, <1>4, <1>7 DEF OwnedBy, Reading
<1>9. \A r \in claims' : Latest(r)' <=> Latest(r)
  BY <1>2 DEF Latest
<1>10. OnlyLatestCurrent(i)' /\ LatestTold(i)'
  BY <1>1, <1>2, <1>3, <1>9 DEF Told, OnlyLatestCurrent, LatestTold, Stored
<1> QED
  BY <1>5, <1>6, <1>8, <1>10 DEF Told, Owned

\* An ingest cut short leaves the rows, and the note among the cut once it wrote.
LEMMA AbortTold ==
  ASSUME TypeOK, NEW i \in Ingesters, Told(i), Abort(i)
  PROVE  Told(i)'
<1>1. PICK p \in Notes : p = proc[i].path
  BY DEF TypeOK, Abort
<1>2. /\ UNCHANGED <<files, docs, claims, clock>>
      /\ proc[i].at \in {"stat", "digest", "touch", "document"} => torn' = torn /\ cut' = cut
      /\ proc[i].at \notin {"stat", "digest", "touch", "document"} => cut' = cut \cup {p}
  BY <1>1 DEF Abort, TypeOK
<1>3. proc'[i].at = "idle" /\ proc'[i] = Idle
  BY FinishFrame DEF Abort, Finish, TypeOK
<1>4. proc'[i].path = None
  BY <1>3 DEF Idle
<1>5. Ordered(i)' /\ Owned(i)'
  BY <1>2, <1>3, SameTimes DEF Told, Exists, Stored, Reading
<1>6. Carries(i)'
  BY <1>3 DEF Carries, Writing
<1>7. \A r : Latest(r)' <=> Latest(r)
  BY <1>2 DEF Latest
<1>8. OnlyLatestCurrent(i)'
  BY <1>1, <1>2, <1>7 DEF Told, OnlyLatestCurrent
<1>9. LatestTold(i)'
  BY <1>1, <1>2, <1>4, <1>7, TimesAreNumbers DEF Told, LatestTold, Stored
<1> QED
  BY <1>5, <1>6, <1>8, <1>9 DEF Told

AssertInv ==
  CurrentInv /\ OwnerInv /\ \A i \in Ingesters : setup.ingesters = {i} => Told(i)

LEMMA AssertStep == AssertInv /\ [Next]_vars => AssertInv'
<1> SUFFICES ASSUME AssertInv, [Next]_vars, NEW i \in Ingesters, setup'.ingesters = {i}
             PROVE  Told(i)'
  BY CurrentStep, OwnerStep DEF AssertInv
<1>1. TypeOK /\ PrimaryKey /\ CurrentIsNewest
  BY DEF AssertInv, CurrentInv
<1>2. setup.ingesters = {i}
  BY <1>1 DEF Next, vars, Write, Remove, Read, Delete, Ingest, Abort, TypeOK, Setups, Stat,
       Digest, Touch, StoreDocument, Extract, Probe, Insert, Seal, Unseal, Declaim
<1>3. OneWorks(i) /\ Told(i)
  BY <1>2 DEF AssertInv, OwnerInv
<1>4. ASSUME NEW p \in Notes, NEW v \in Values \cup {None}, Write(p, v)
      PROVE  Told(i)'
  BY <1>1, <1>3, <1>4, WriteTold
<1>5. ASSUME NEW p \in Notes, Remove(p)
      PROVE  Told(i)'
  BY <1>1, <1>3, <1>5, RemoveTold
<1>6. ASSUME NEW j \in Ingesters, NEW p \in Notes, Read(j, p) \/ Delete(j, p)
      PROVE  Told(i)'
  <2>1. j = i
    BY <1>2, <1>6 DEF Read, Delete
  <2> QED
    BY <1>1, <1>3, <1>6, <2>1, ReadTold, DeleteTold
<1>7. ASSUME NEW j \in Ingesters, Ingest(j) \/ Abort(j)
      PROVE  Told(i)'
  <2>1. proc[j].at # "idle"
    BY <1>7 DEF Ingest, Stat, Digest, Touch, StoreDocument, Extract, Probe, Insert, Seal,
         Unseal, Declaim, Abort
  <2>2. j = i
    BY <1>3, <2>1 DEF OneWorks
  <2> QED
    BY <1>1, <1>3, <1>7, <2>2, StatTold, DigestTold, TouchTold, StoreDocumentTold, ExtractTold,
       ProbeTold, InsertTold, SealTold, UnsealTold, DeclaimTold, AbortTold DEF Ingest
<1>8. CASE UNCHANGED vars
  BY <1>1, <1>3, <1>8, QuietStepTold DEF vars, Exists, Stored
<1> QED
  BY <1>4, <1>5, <1>6, <1>7, <1>8 DEF Next

\* Under one ingester what is current is what its note said when it was last ingested,
\* however its rows were superseded, overwritten or skipped as unchanged, unless the
\* note has ceased to claim anything or its ingest was cut short.
THEOREM CurrentStaysAsserted == Spec => []CurrentIsAsserted
<1>1. Init => AssertInv
  <2>0. Init => CurrentInv /\ OwnerInv
    BY TypeInit DEF Init, CurrentInv, PrimaryKey, CurrentIsNewest, OwnerInv, OneWorks, Writing,
       Idle
  <2> SUFFICES ASSUME Init, NEW i \in Ingesters
               PROVE  Told(i)
    BY <2>0 DEF AssertInv
  <2>1. /\ claims = {} /\ proc[i].at = "idle"
        /\ \A p \in Notes : ~Exists(p) /\ ~Stored(p)
    BY DEF Init, Idle, Exists, Stored
  <2>2. [t \in Nat |-> None] \in Owners
    BY DEF Owners
  <2>3. Owned(i)
    BY <2>1, <2>2 DEF Owned, OwnedBy, Reading
  <2> QED
    BY <2>1, <2>3 DEF Told, Carries, Ordered, OnlyLatestCurrent, LatestTold, Writing, Reading
<1>2. AssertInv => CurrentIsAsserted
  <2> SUFFICES ASSUME AssertInv, Sole, ~torn, \A i \in Ingesters : proc[i].at = "idle",
                      NEW r \in claims, r.current, r.path \notin cut, Stored(r.path)
               PROVE  docs[r.path].sha.claim \in {r.value, None}
    BY DEF CurrentIsAsserted
  <2>1. PICK i \in Ingesters : setup.ingesters = {i}
    BY DEF Sole
  <2>2. Told(i) /\ proc[i].at = "idle"
    BY <2>1 DEF AssertInv
  <2>3. Latest(r)
    BY <2>2 DEF Told, OnlyLatestCurrent
  <2> QED
    BY <2>2, <2>3 DEF Told, LatestTold
<1> QED
  BY <1>1, <1>2, AssertStep, PTL DEF Spec
==============================================================================
