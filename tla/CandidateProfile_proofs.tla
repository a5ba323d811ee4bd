---------------------- MODULE CandidateProfile_proofs ----------------------
(* Proofs about CandidateProfile, SkillList, CvReview and CvIntake, for every value of their constants. *)
EXTENDS CandidateProfile, SkillList, CvReview, CvIntake, Lists_proofs, FiniteSetTheorems, SequenceTheorems, TLAPS

(***************************************************************************)
(* A type invariant needs to know what draft a request works on: the rows  *)
(* of uploads and parse runs are never removed, and a request only reaches *)
(* the steps that need a parse run after it has found or created one.      *)
(***************************************************************************)
Parsed(u) == u \in Uploads /\ parseRun[u].status # "none"

DraftsKnown ==
  \A u \in Uploads : /\ Done(u) => upload[u].draft \in Draft
                     /\ Parsed(u) => Done(u)

Serves(q) ==
  /\ q.kind = "upload" => Done(q.cv)
  /\ q.pc \in {"finalize", "createRun"} => q.kind = "upload"
  /\ q.pc = "replace" => q.todo # {}
  /\ q.kind \in {"apply", "review"} => Parsed(q.cv)
  /\ q.kind = "autoApply" /\ q.pc # "readLatest" => Parsed(q.cv)

RowsGrow == \A u \in Uploads : (Done(u) => Done(u)') /\ (Parsed(u) => Parsed(u)')

TypeInv == ProfileTypeOK /\ DraftsKnown /\ \A r \in Request : Serves(req[r])

LEMMA BlankTyping == \A pc \in RequestPC : Blank(pc) \in RequestRecord
BY ProfileBounds DEF Blank, BlankRow, RequestRecord, Row, List, EmptyList, NoOps, Uploads

LEMMA GoKeeps ==
  ASSUME TypeInv, RowsGrow, NEW r \in Request, NEW q \in RequestRecord, Serves(q)',
         Go(r, q) \/ (req' = [req EXCEPT ![r] = q] /\ loop' = r)
  PROVE  /\ req' \in [Request -> RequestRecord] /\ loop' \in Request \cup {Nil}
         /\ \A p \in Request : Serves(req[p])'
<1>1. req' = [req EXCEPT ![r] = q] /\ loop' \in Request \cup {Nil}
  BY DEF Go, TypeInv, ProfileTypeOK
<1>2. ASSUME NEW p \in Request PROVE Serves(req[p])'
  <2>1. req'[p] = q \/ req'[p] = req[p]
    BY <1>1 DEF TypeInv, ProfileTypeOK
  <2>2. CASE req'[p] = q
    BY <2>2 DEF Serves, Done, Parsed
  <2>3. CASE req'[p] = req[p]
    BY <2>3 DEF TypeInv, Serves, RowsGrow, Done, Parsed
  <2> QED
    BY <2>1, <2>2, <2>3
<1> QED
  BY <1>1, <1>2 DEF TypeInv, ProfileTypeOK

LEMMA EndKeeps ==
  ASSUME TypeInv, RowsGrow, NEW r \in Request, End(r)
  PROVE  /\ req' \in [Request -> RequestRecord] /\ loop' \in Request \cup {Nil}
         /\ \A p \in Request : Serves(req[p])'
<1>1. Blank("done") \in RequestRecord
  BY BlankTyping DEF RequestPC
<1>2. req' = [req EXCEPT ![r] = Blank("done")] /\ loop' \in Request \cup {Nil}
  BY DEF End, TypeInv, ProfileTypeOK
<1>3. ASSUME NEW p \in Request PROVE Serves(req[p])'
  <2>1. req'[p] = Blank("done") \/ req'[p] = req[p]
    BY <1>2 DEF TypeInv, ProfileTypeOK
  <2>2. CASE req'[p] = Blank("done")
    BY <2>2 DEF Serves, Blank
  <2>3. CASE req'[p] = req[p]
    BY <2>3 DEF TypeInv, Serves, RowsGrow, Done, Parsed
  <2> QED
    BY <2>1, <2>2, <2>3
<1> QED
  BY <1>1, <1>2, <1>3 DEF TypeInv, ProfileTypeOK

(* A step that leaves uploads and parse runs alone. *)
LEMMA RequestsKeep ==
  ASSUME TypeInv, NEW r \in Request, UNCHANGED <<upload, parseRun>>,
         End(r) \/ \E q \in RequestRecord : Serves(q) /\ Go(r, q)
  PROVE  /\ DraftsKnown'
         /\ req' \in [Request -> RequestRecord] /\ loop' \in Request \cup {Nil}
         /\ \A p \in Request : Serves(req[p])'
<1>1. RowsGrow /\ DraftsKnown'
  BY DEF RowsGrow, DraftsKnown, TypeInv, Done, Parsed
<1>2. CASE End(r)
  BY <1>1, <1>2, EndKeeps
<1>3. CASE \E q \in RequestRecord : Serves(q) /\ Go(r, q)
  <2>1. PICK q \in RequestRecord : Serves(q) /\ Go(r, q)
    BY <1>3
  <2>2. Serves(q)'
    BY <2>1 DEF Serves, Done, Parsed
  <2> QED
    BY <1>1, <2>1, <2>2, GoKeeps
<1> QED
  BY <1>2, <1>3

(* A request that only moves on, or is answered, without touching a table. *)
LEMMA MovesKeep ==
  ASSUME TypeInv, NEW r \in Request, NoProfile, NoCv,
         overlapped' \in BOOLEAN, failures' \in 0 .. MaxFailures,
         End(r) \/ \E q \in RequestRecord : Serves(q) /\ Go(r, q)
  PROVE  TypeInv'
<1>1. /\ DraftsKnown'
      /\ req' \in [Request -> RequestRecord] /\ loop' \in Request \cup {Nil}
      /\ \A p \in Request : Serves(req[p])'
  BY RequestsKeep DEF NoCv, cvs
<1> QED
  BY <1>1 DEF TypeInv, ProfileTypeOK, NoProfile, profile, NoCv, cvs

LEMMA ArrivalsMove ==
  ASSUME TypeInv, NEW r \in Request, Begins(r)
  PROVE  overlapped' \in BOOLEAN /\ failures' \in 0 .. MaxFailures
BY DEF Begins, TypeInv, ProfileTypeOK

LEMMA ServedMove ==
  ASSUME TypeInv, NoHistory
  PROVE  overlapped' \in BOOLEAN /\ failures' \in 0 .. MaxFailures
BY DEF NoHistory, TypeInv, ProfileTypeOK

(* The requests that write nothing when they arrive. *)
LEMMA EditsKeep ==
  ASSUME TypeInv, NEW r \in Request,
         PatchBasicInfo(r) \/ PatchPreferences(r) \/ UploadAvatar(r) \/ PutProfile(r)
  PROVE  TypeInv'
<1> USE DEF RequestPC
<1>1. row \in Row /\ section \in [Section -> List]
  BY DEF TypeInv, ProfileTypeOK
<1>2. CASE PatchBasicInfo(r)
  <2>1. PICK h \in Headline \cup {Nil} :
          Go(r, [Blank("upsert") EXCEPT !.kind = "edit", !.row = [row EXCEPT !.headline = h]])
    BY <1>2 DEF PatchBasicInfo
  <2>2. [row EXCEPT !.headline = h] \in Row
    BY <1>1 DEF Row
  <2>3. [Blank("upsert") EXCEPT !.kind = "edit", !.row = [row EXCEPT !.headline = h]]
          \in RequestRecord
    BY <2>2, BlankTyping DEF RequestRecord
  <2>4. Serves([Blank("upsert") EXCEPT !.kind = "edit", !.row = [row EXCEPT !.headline = h]])
    BY DEF Serves, Blank
  <2> QED
    BY <1>2, <2>1, <2>3, <2>4, MovesKeep, ArrivalsMove DEF PatchBasicInfo
<1>3. CASE PatchPreferences(r)
  <2>1. PICK R \in SUBSET Role :
          Go(r, [Blank("upsert") EXCEPT !.kind = "edit", !.row = [row EXCEPT !.roles = R]])
    BY <1>3 DEF PatchPreferences
  <2>2. [row EXCEPT !.roles = R] \in Row
    BY <1>1 DEF Row
  <2>3. [Blank("upsert") EXCEPT !.kind = "edit", !.row = [row EXCEPT !.roles = R]]
          \in RequestRecord
    BY <2>2, BlankTyping DEF RequestRecord
  <2>4. Serves([Blank("upsert") EXCEPT !.kind = "edit", !.row = [row EXCEPT !.roles = R]])
    BY DEF Serves, Blank
  <2> QED
    BY <1>3, <2>1, <2>3, <2>4, MovesKeep, ArrivalsMove DEF PatchPreferences
<1>4. CASE UploadAvatar(r)
  <2> DEFINE q == [Blank("upsert") EXCEPT !.kind = "avatar", !.row = row]
  <2>1. q \in RequestRecord
    BY <1>1, BlankTyping DEF RequestRecord
  <2>2. Serves(q)
    BY DEF Serves, Blank
  <2> QED
    BY <1>4, <2>1, <2>2, MovesKeep, ArrivalsMove DEF UploadAvatar
<1>5. CASE PutProfile(r)
  <2> DEFINE q(h) == [Blank("readMeta") EXCEPT !.kind = "put", !.row = [row EXCEPT !.headline = h],
                        !.list = section, !.todo = Section]
  <2>1. PICK h \in Headline : Go(r, q(h))
    BY <1>5 DEF PutProfile
  <2>2. [row EXCEPT !.headline = h] \in Row
    BY <1>1 DEF Row
  <2>3. q(h) \in RequestRecord
    BY <1>1, <2>2, BlankTyping DEF RequestRecord
  <2>4. Serves(q(h))
    BY DEF Serves, Blank
  <2> QED
    BY <1>5, <2>1, <2>3, <2>4, MovesKeep, ArrivalsMove DEF PutProfile
<1> QED
  BY <1>2, <1>3, <1>4, <1>5

LEMMA SavesKeep ==
  ASSUME TypeInv, NEW r \in Request, NEW s \in Section, NEW list \in List,
         Begins(r), SaveList(r, s, list), NoProfile, NoCv
  PROVE  TypeInv'
<1> DEFINE q == [Blank("replace") EXCEPT !.kind = "edit", !.list = [@ EXCEPT ![s] = list],
                   !.todo = {s}]
<1>1. q \in RequestRecord
  BY BlankTyping DEF RequestRecord, RequestPC
<1>2. Serves(q)
  BY DEF Serves, Blank
<1> QED
  BY <1>1, <1>2, MovesKeep, ArrivalsMove DEF SaveList

LEMMA EntriesKeep ==
  ASSUME TypeInv, NEW r \in Request, CreateEntry(r) \/ PatchEntry(r) \/ DeleteEntry(r)
  PROVE  TypeInv'
<1>1. section \in [Section -> List] /\ Own \subseteq Entry /\ MaxCopies \in Nat
  BY OwnAssumption, ProfileBounds DEF TypeInv, ProfileTypeOK
<1>2. CASE CreateEntry(r)
  <2>1. PICK s \in Section, e \in Own :
          HasRoom(s, e) /\ SaveList(r, s, [section[s] EXCEPT ![e] = @ + 1])
    BY <1>2 DEF CreateEntry
  <2>2. [section[s] EXCEPT ![e] = @ + 1] \in List
    BY <1>1, <2>1 DEF HasRoom, List
  <2> QED
    BY <1>2, <2>1, <2>2, SavesKeep DEF CreateEntry
<1>3. CASE PatchEntry(r)
  <2>1. PICK s \in Section, e \in Entry, o \in Own :
          /\ e # o /\ Listed(s, e) /\ HasRoom(s, o)
          /\ SaveList(r, s, [section[s] EXCEPT ![e] = @ - 1, ![o] = @ + 1])
    BY <1>3 DEF PatchEntry
  <2>2. [section[s] EXCEPT ![e] = @ - 1, ![o] = @ + 1] \in List
    BY <1>1, <2>1 DEF HasRoom, Listed, List
  <2> QED
    BY <1>3, <2>1, <2>2, SavesKeep DEF PatchEntry
<1>4. CASE DeleteEntry(r)
  <2>1. PICK s \in Section, e \in Entry :
          Listed(s, e) /\ SaveList(r, s, [section[s] EXCEPT ![e] = @ - 1])
    BY <1>4 DEF DeleteEntry
  <2>2. [section[s] EXCEPT ![e] = @ - 1] \in List
    BY <1>1, <2>1 DEF Listed, List
  <2> QED
    BY <1>4, <2>1, <2>2, SavesKeep DEF DeleteEntry
<1> QED
  BY <1>2, <1>3, <1>4

LEMMA LinkKeeps ==
  ASSUME TypeInv, NEW r \in Request, LinkCertificate(r)
  PROVE  TypeInv'
<1>1. RowsGrow /\ DraftsKnown'
  BY DEF LinkCertificate, NoCv, cvs, RowsGrow, DraftsKnown, TypeInv, Done, Parsed
<1>2. /\ req' \in [Request -> RequestRecord] /\ loop' \in Request \cup {Nil}
      /\ \A p \in Request : Serves(req[p])'
  BY <1>1, EndKeeps DEF LinkCertificate
<1> QED
  BY <1>1, <1>2, ArrivalsMove DEF LinkCertificate, NoCv, cvs, TypeInv, ProfileTypeOK

LEMMA UploadKeeps ==
  ASSUME TypeInv, NEW r \in Request, UploadCv(r)
  PROVE  TypeInv'
<1>1. PICK u \in Uploads, d \in Draft :
        /\ ~Done(u)
        /\ upload' = [upload EXCEPT ![u] = [status |-> "pending", draft |-> d]]
        /\ req' = [req EXCEPT ![r] = [Blank("finalize") EXCEPT !.kind = "upload", !.cv = u]]
  BY DEF UploadCv
<1> DEFINE q == [Blank("finalize") EXCEPT !.kind = "upload", !.cv = u]
<1>2. upload' \in [Uploads -> UploadRecord] /\ UNCHANGED parseRun
  BY <1>1 DEF UploadCv, TypeInv, ProfileTypeOK, UploadRecord
<1>3. RowsGrow /\ DraftsKnown' /\ Done(u)'
  BY <1>1, <1>2 DEF TypeInv, ProfileTypeOK, RowsGrow, DraftsKnown, Done, Parsed
<1>4. q \in RequestRecord
  <2>1. u \in 0 .. MaxUploads
    BY ProfileBounds DEF Uploads
  <2> QED
    BY <2>1, BlankTyping DEF RequestRecord, RequestPC
<1>5. Serves(q)'
  <2>1. q.kind = "upload" /\ q.cv = u /\ q.pc = "finalize"
    BY DEF Blank
  <2> QED
    BY <1>3, <2>1 DEF Serves
<1>6. /\ req' \in [Request -> RequestRecord] /\ loop' \in Request \cup {Nil}
      /\ \A p \in Request : Serves(req[p])'
  BY <1>1, <1>3, <1>4, <1>5, GoKeeps DEF UploadCv
<1> QED
  BY <1>2, <1>3, <1>6, ArrivalsMove DEF UploadCv, NoProfile, profile, TypeInv, ProfileTypeOK

LEMMA ApplyKeeps ==
  ASSUME TypeInv, NEW r \in Request, ApplySelected(r)
  PROVE  TypeInv'
<1> DEFINE q(u) == [Blank("readRow") EXCEPT !.kind = "apply", !.cv = u,
                      !.base = parseRun[u].count]
<1>1. PICK u \in Uploads : parseRun[u].status # "none" /\ Go(r, q(u))
  BY DEF ApplySelected
<1>2. parseRun[u].count \in Nat
  BY DEF TypeInv, ProfileTypeOK, RunRecord
<1>3. q(u) \in RequestRecord
  <2>1. u \in 0 .. MaxUploads
    BY ProfileBounds DEF Uploads
  <2> QED
    BY <1>2, <2>1, BlankTyping DEF RequestRecord, RequestPC
<1>4. Serves(q(u))
  BY <1>1 DEF Serves, Blank, Parsed
<1> QED
  BY <1>1, <1>3, <1>4, MovesKeep, ArrivalsMove DEF ApplySelected

LEMMA FirstOfSections ==
  ASSUME NEW S \in SUBSET Section, S # {}
  PROVE  First(S) \in S
<1>1. \A s \in S : s \in {"education", "experience", "language", "certification"}
  BY SectionAssumption DEF Position
<1>2. \E s \in S : \A t \in S : Position[s] <= Position[t]
  <2>1. CASE "education" \in S
    BY <1>1, <2>1 DEF Position
  <2>2. CASE "education" \notin S /\ "experience" \in S
    BY <1>1, <2>2 DEF Position
  <2>3. CASE "education" \notin S /\ "experience" \notin S /\ "language" \in S
    BY <1>1, <2>3 DEF Position
  <2>4. CASE "education" \notin S /\ "experience" \notin S /\ "language" \notin S
    BY <1>1, <2>4 DEF Position
  <2> QED
    BY <2>1, <2>2, <2>3, <2>4
<1> QED
  BY <1>2 DEF First

LEMMA Counts ==
  /\ \A F \in SUBSET Field : Cardinality(F) \in Nat
  /\ \A E \in SUBSET Entry : Cardinality(E) \in Nat
  /\ \A X \in SUBSET (Section \X Entry) : Cardinality(X) \in Nat
<1>1. IsFiniteSet(Field)
  <2>1. IsFiniteSet({"headline"})
    BY FS_Singleton
  <2>2. IsFiniteSet({"headline"} \cup {"roles"})
    BY <2>1, FS_AddElement
  <2>3. Field = {"headline"} \cup {"roles"}
    BY DEF Field
  <2> QED
    BY <2>2, <2>3
<1>2. IsFiniteSet(Section)
  <2>1. IsFiniteSet({"education", "experience", "language", "certification"})
    <3>1. IsFiniteSet({"education"})
      BY FS_Singleton
    <3>2. IsFiniteSet({"education"} \cup {"experience"})
      BY <3>1, FS_AddElement
    <3>3. IsFiniteSet({"education"} \cup {"experience"} \cup {"language"})
      BY <3>2, FS_AddElement
    <3>4. IsFiniteSet({"education"} \cup {"experience"} \cup {"language"} \cup {"certification"})
      BY <3>3, FS_AddElement
    <3>5. {"education"} \cup {"experience"} \cup {"language"} \cup {"certification"}
            = {"education", "experience", "language", "certification"}
      OBVIOUS
    <3> QED
      BY <3>4, <3>5
  <2>2. Section \subseteq {"education", "experience", "language", "certification"}
    BY SectionAssumption DEF Position
  <2> QED
    BY <2>1, <2>2, FS_Subset
<1>3. IsFiniteSet(Section \X Entry)
  BY <1>2, OwnAssumption, FS_Product
<1>4. ASSUME NEW F \in SUBSET Field PROVE Cardinality(F) \in Nat
  BY <1>1, FS_Subset, FS_CardinalityType
<1>5. ASSUME NEW E \in SUBSET Entry PROVE Cardinality(E) \in Nat
  BY OwnAssumption, FS_Subset, FS_CardinalityType
<1>6. ASSUME NEW X \in SUBSET (Section \X Entry) PROVE Cardinality(X) \in Nat
  BY <1>3, FS_Subset, FS_CardinalityType
<1> QED
  BY <1>4, <1>5, <1>6

LEMMA SelectedCount ==
  ASSUME NEW ops \in [fields : SUBSET Field, entries : [Section -> SUBSET Entry]]
  PROVE  SelectedOps(ops) \in Nat
<1>1. {x \in Section \X Entry : x[2] \in ops.entries[x[1]]} \in SUBSET (Section \X Entry)
  OBVIOUS
<1>2. Cardinality({x \in Section \X Entry : x[2] \in ops.entries[x[1]]}) \in Nat
  BY <1>1, Counts
<1>3. Cardinality(ops.fields) \in Nat
  BY Counts
<1> QED
  BY <1>2, <1>3 DEF SelectedOps

(* The reads of the tables. *)
LEMMA ReadsKeep ==
  ASSUME TypeInv, NEW r \in Request,
         ReadRow(r) \/ ReadSection(r) \/ ReadMeta(r) \/ ReadLatestRun(r)
  PROVE  TypeInv'
<1>1. /\ row \in Row /\ section \in [Section -> List]
      /\ req[r] \in RequestRecord /\ Serves(req[r])
  BY DEF TypeInv, ProfileTypeOK
<1>2. CASE ReadRow(r)
  <2> DEFINE q == [req[r] EXCEPT !.row = row, !.todo = Section, !.pc = "readSection"]
  <2>1. q \in RequestRecord
    BY <1>1 DEF RequestRecord, RequestPC
  <2>2. Serves(q)
    BY <1>1, <1>2 DEF Serves, ReadRow, At, RequestRecord
  <2> QED
    BY <1>2, <2>1, <2>2, MovesKeep, ServedMove DEF ReadRow
<1>3. CASE ReadSection(r)
  <2> DEFINE s == First(req[r].todo)
             q == [req[r] EXCEPT !.list = [@ EXCEPT ![s] = section[s]], !.todo = @ \ {s}]
  <2> HIDE DEF s
  <2>1. q \in RequestRecord
    BY <1>1 DEF RequestRecord
  <2>2. Serves(q)
    BY <1>1, <1>3 DEF Serves, ReadSection, At, RequestRecord
  <2>3. Go(r, q)
    BY <1>3 DEF ReadSection, s
  <2> QED
    BY <1>3, <2>1, <2>2, <2>3, MovesKeep, ServedMove DEF ReadSection
<1>4. CASE ReadMeta(r)
  <2> DEFINE new == IF req[r].kind = "put" THEN [req[r].row EXCEPT !.cv = row.cv]
                    ELSE [row EXCEPT !.cv = req[r].cv]
             q == [req[r] EXCEPT !.pc = "upsert", !.row = new]
  <2>1. new \in Row
    BY <1>1 DEF RequestRecord, Row
  <2>2. q \in RequestRecord
    BY <1>1, <2>1 DEF RequestRecord, RequestPC
  <2>3. Serves(q)
    BY <1>1, <1>4 DEF Serves, ReadMeta, At, RequestRecord
  <2>4. Go(r, q)
    BY <1>1, <1>4 DEF ReadMeta, RequestRecord
  <2> QED
    BY <1>4, <2>2, <2>3, <2>4, MovesKeep, ServedMove DEF ReadMeta
<1>5. CASE ReadLatestRun(r)
  <2> DEFINE q(u) == [req[r] EXCEPT !.cv = u, !.pc = "readRow"]
  <2>1. PICK u \in Uploads : Latest(u) /\ Go(r, q(u))
    BY <1>5 DEF ReadLatestRun
  <2>2. Parsed(u) /\ Done(u)
    BY <2>1 DEF Latest, Parsed, TypeInv, DraftsKnown
  <2>3. u \in 0 .. MaxUploads
    BY ProfileBounds DEF Uploads
  <2>4. q(u) \in RequestRecord
    BY <1>1, <2>3 DEF RequestRecord, RequestPC
  <2>5. Serves(q(u))
    BY <1>1, <2>2 DEF Serves, RequestRecord
  <2> QED
    BY <1>5, <2>1, <2>4, <2>5, MovesKeep, ServedMove DEF ReadLatestRun
<1> QED
  BY <1>2, <1>3, <1>4, <1>5

LEMMA WrittenMoves ==
  ASSUME TypeInv, NEW r \in Request, Written(r)
  PROVE  End(r) \/ \E q \in RequestRecord : Serves(q) /\ Go(r, q)
<1>1. req[r] \in RequestRecord /\ Serves(req[r])
  BY DEF TypeInv, ProfileTypeOK
<1>2. CASE req[r].kind = "apply"
  <2> DEFINE q == [req[r] EXCEPT !.kind = "review", !.pc = "readRow"]
  <2>1. q \in RequestRecord
    BY <1>1 DEF RequestRecord, RequestPC
  <2>2. Serves(q)
    BY <1>1, <1>2 DEF Serves, RequestRecord
  <2> QED
    BY <1>2, <2>1, <2>2 DEF Written
<1>3. CASE req[r].kind # "apply"
  BY <1>3 DEF Written
<1> QED
  BY <1>2, <1>3

(* The writes of the profile. *)
LEMMA UpsertKeeps ==
  ASSUME TypeInv, NEW r \in Request, Upsert(r)
  PROVE  TypeInv'
<1>1. req[r] \in RequestRecord /\ Serves(req[r]) /\ applied \in [Uploads -> Nat]
  BY DEF TypeInv, ProfileTypeOK
<1>2. End(r) \/ \E q \in RequestRecord : Serves(q) /\ Go(r, q)
  <2>1. CASE req[r].kind = "upload"
    <3> DEFINE q == [req[r] EXCEPT !.kind = "autoApply", !.pc = "readLatest"]
    <3>1. q \in RequestRecord
      BY <1>1 DEF RequestRecord, RequestPC
    <3>2. Serves(q)
      BY <1>1 DEF Serves, RequestRecord
    <3> QED
      BY <2>1, <3>1, <3>2 DEF Upsert
  <2>2. CASE req[r].kind # "upload" /\ req[r].todo = {}
    BY <2>2, WrittenMoves DEF Upsert
  <2>3. CASE req[r].kind # "upload" /\ req[r].todo # {}
    <3> DEFINE q == [req[r] EXCEPT !.pc = "replace"]
    <3>1. q \in RequestRecord
      BY <1>1 DEF RequestRecord, RequestPC
    <3>2. Serves(q)
      BY <1>1, <2>3 DEF Serves, RequestRecord, Upsert, At
    <3> QED
      BY <2>3, <3>1, <3>2 DEF Upsert
  <2> QED
    BY <2>1, <2>2, <2>3
<1>3. row' \in Row
  BY <1>1 DEF Upsert, RequestRecord
<1>4. applied' \in [Uploads -> Nat]
  <2> DEFINE n == Cardinality(req[r].ops.fields)
  <2>1. n \in Nat
    BY <1>1, Counts DEF RequestRecord
  <2>2. applied' = applied \/ applied' = [applied EXCEPT ![req[r].cv] = @ + n]
    BY DEF Upsert
  <2> QED
    BY <1>1, <2>1, <2>2
<1>5. /\ DraftsKnown'
      /\ req' \in [Request -> RequestRecord] /\ loop' \in Request \cup {Nil}
      /\ \A p \in Request : Serves(req[p])'
  BY <1>2, RequestsKeep DEF Upsert
<1> QED
  BY <1>3, <1>4, <1>5, ServedMove DEF Upsert, TypeInv, ProfileTypeOK

LEMMA ReplaceKeeps ==
  ASSUME TypeInv, NEW r \in Request, ReplaceSection(r)
  PROVE  TypeInv'
<1> DEFINE s == First(req[r].todo)
<1>1. /\ req[r] \in RequestRecord /\ Serves(req[r]) /\ applied \in [Uploads -> Nat]
      /\ section \in [Section -> List]
  BY DEF TypeInv, ProfileTypeOK
<1>2. s \in req[r].todo /\ s \in Section
  BY <1>1, FirstOfSections DEF ReplaceSection, At, Serves, RequestRecord
<1>3. End(r) \/ \E q \in RequestRecord : Serves(q) /\ Go(r, q)
  <2>1. CASE Refused(s)
    BY <2>1 DEF ReplaceSection
  <2>2. CASE ~Refused(s) /\ req[r].todo = {s}
    BY <2>2, WrittenMoves DEF ReplaceSection
  <2>3. CASE ~Refused(s) /\ req[r].todo # {s}
    <3> DEFINE q == [req[r] EXCEPT !.todo = @ \ {s}]
    <3>1. q \in RequestRecord
      BY <1>1 DEF RequestRecord
    <3>2. Serves(q)
      BY <1>1, <1>2, <2>3 DEF Serves, RequestRecord
    <3> QED
      BY <2>3, <3>1, <3>2 DEF ReplaceSection
  <2> QED
    BY <2>1, <2>2, <2>3
<1>4. section' \in [Section -> List]
  BY <1>1, <1>2 DEF ReplaceSection, RequestRecord
<1>5. applied' \in [Uploads -> Nat]
  <2>1. Cardinality(req[r].ops.entries[s]) \in Nat
    BY <1>1, <1>2, Counts DEF RequestRecord
  <2> QED
    BY <1>1, <2>1 DEF ReplaceSection
<1>6. /\ DraftsKnown'
      /\ req' \in [Request -> RequestRecord] /\ loop' \in Request \cup {Nil}
      /\ \A p \in Request : Serves(req[p])'
  BY <1>3, RequestsKeep DEF ReplaceSection
<1> QED
  BY <1>4, <1>5, <1>6, ServedMove DEF ReplaceSection, TypeInv, ProfileTypeOK

(* The steps of an upload. *)
LEMMA RowsKeep ==
  ASSUME TypeInv, NEW r \in Request, FinalizeUpload(r) \/ CreateParseRun(r)
  PROVE  TypeInv'
<1>1. /\ req[r] \in RequestRecord /\ Serves(req[r])
      /\ upload \in [Uploads -> UploadRecord] /\ parseRun \in [Uploads -> RunRecord]
  BY DEF TypeInv, ProfileTypeOK
<1>2. CASE FinalizeUpload(r)
  <2>1. upload' \in [Uploads -> UploadRecord]
    BY <1>1, <1>2 DEF FinalizeUpload, UploadRecord
  <2>2. req[r].kind = "upload" /\ Done(req[r].cv)
    BY <1>1, <1>2 DEF FinalizeUpload, At, Serves
  <2>3. ASSUME NEW u \in Uploads
        PROVE  /\ upload'[u].draft = upload[u].draft
               /\ Done(u) <=> Done(u)'
    BY <1>1, <1>2, <2>2 DEF FinalizeUpload, Done, UploadRecord
  <2>4. RowsGrow /\ DraftsKnown'
    BY <1>2, <2>3 DEF FinalizeUpload, RowsGrow, DraftsKnown, TypeInv, Parsed
  <2>5. PICK u \in Uploads : u = req[r].cv
    BY <2>2 DEF Done
  <2>6. PICK q \in RequestRecord : q = [req[r] EXCEPT !.pc = "createRun"]
    BY <1>1 DEF RequestRecord, RequestPC
  <2>7. Serves(q)'
    <3>1. q.kind = "upload" /\ q.cv = u /\ q.pc = "createRun"
      BY <1>1, <2>2, <2>5, <2>6 DEF RequestRecord
    <3>2. Done(u)'
      BY <2>2, <2>3, <2>5
    <3> QED
      BY <3>1, <3>2 DEF Serves
  <2>8. Go(r, q)
    BY <1>2, <2>6 DEF FinalizeUpload
  <2> QED
    BY <1>2, <2>1, <2>4, <2>7, <2>8, GoKeeps, ServedMove
    DEF FinalizeUpload, NoProfile, profile, TypeInv, ProfileTypeOK
<1>3. CASE CreateParseRun(r)
  <2>1. parseRun' \in [Uploads -> RunRecord]
    BY <1>1, <1>3 DEF CreateParseRun, RunRecord
  <2>2. req[r].kind = "upload" /\ Done(req[r].cv)
    BY <1>1, <1>3 DEF CreateParseRun, At, Serves
  <2>3. RowsGrow /\ DraftsKnown'
    BY <1>1, <1>3, <2>2 DEF CreateParseRun, RowsGrow, DraftsKnown, TypeInv, Done, Parsed
  <2>4. PICK u \in Uploads : u = req[r].cv
    BY <2>2 DEF Done
  <2>5. PICK q \in RequestRecord : q = [req[r] EXCEPT !.pc = "readMeta"]
    BY <1>1 DEF RequestRecord, RequestPC
  <2>6. Serves(q)'
    <3>1. q.kind = "upload" /\ q.cv = u /\ q.pc = "readMeta"
      BY <1>1, <2>2, <2>4, <2>5 DEF RequestRecord
    <3>2. Done(u)'
      BY <2>2, <2>3, <2>4 DEF RowsGrow
    <3> QED
      BY <3>1, <3>2 DEF Serves
  <2>7. Go(r, q)
    BY <1>3, <2>5 DEF CreateParseRun
  <2> QED
    BY <1>3, <2>1, <2>3, <2>6, <2>7, GoKeeps, ServedMove
    DEF CreateParseRun, NoProfile, profile, TypeInv, ProfileTypeOK
<1> QED
  BY <1>2, <1>3

(* The draft a request with a parse run works on. *)
LEMMA DraftOf ==
  ASSUME TypeInv, NEW u, Parsed(u)
  PROVE  upload[u].draft \in DraftRecord
BY DraftAssumption DEF TypeInv, DraftsKnown, Parsed

LEMMA ListTyping == \A E : ListOf(E) \in List
BY ProfileBounds DEF ListOf, List

LEMMA AutoApplyKeeps ==
  ASSUME TypeInv, NEW r \in Request, DecideAutoApply(r)
  PROVE  TypeInv'
<1>1. /\ req[r] \in RequestRecord /\ Serves(req[r])
      /\ req[r].kind = "autoApply" /\ req[r].pc = "readSection"
  BY DEF TypeInv, ProfileTypeOK, DecideAutoApply, ReadAll, At
<1> DEFINE d == upload[req[r].cv].draft
           written(new, todo) ==
             [req[r] EXCEPT !.row = new, !.todo = todo, !.pc = "upsert",
                !.list = [s \in Section |-> ListOf(d.entries[s])]]
<1>2. d \in DraftRecord
  BY <1>1, DraftOf DEF Serves
<1>3. ASSUME NEW new \in Row, NEW todo \in SUBSET Section
      PROVE  written(new, todo) \in RequestRecord /\ Serves(written(new, todo))
  <2>1. [s \in Section |-> ListOf(d.entries[s])] \in [Section -> List]
    BY ListTyping
  <2>2. written(new, todo) \in RequestRecord
    BY <1>1, <2>1 DEF RequestRecord, RequestPC
  <2>3. Serves(written(new, todo))
    BY <1>1 DEF Serves, RequestRecord
  <2> QED
    BY <2>2, <2>3
<1>4. /\ PivotRow(d, req[r].row) \in Row /\ KeepingRow(d, req[r].row) \in Row
      /\ PivotTodo(d) \in SUBSET Section /\ KeepingTodo(d) \in SUBSET Section
  BY <1>1, <1>2 DEF PivotRow, KeepingRow, PivotTodo, KeepingTodo, DraftRecord, RequestRecord, Row
<1>5. \/ End(r)
      \/ Go(r, written(PivotRow(d, req[r].row), PivotTodo(d)))
      \/ Go(r, written(KeepingRow(d, req[r].row), KeepingTodo(d)))
  <2>1. CASE d.use = "pivot"
    BY <2>1 DEF DecideAutoApply
  <2>2. CASE d.use = "replace"
    BY <2>2 DEF DecideAutoApply
  <2>3. CASE d.use \notin {"pivot", "replace"}
    BY <2>3 DEF DecideAutoApply
  <2> QED
    BY <2>1, <2>2, <2>3
<1> HIDE DEF written
<1>6. End(r) \/ \E q \in RequestRecord : Serves(q) /\ Go(r, q)
  BY <1>3, <1>4, <1>5
<1> QED
  BY <1>6, MovesKeep, ServedMove DEF DecideAutoApply

(* A selection from the plan adds an entry only where there is none. *)
LEMMA AppliedListsTyping ==
  ASSUME NEW list \in [Section -> List], NEW d \in DraftRecord,
         NEW ops \in [fields : SUBSET Field, entries : [Section -> SUBSET Entry]],
         \A t \in Section : ops.entries[t] \subseteq EntryPlan(d, list)[t]
  PROVE  /\ AppliedLists(ops, list) \in [Section -> List]
         /\ \A t \in Section, e \in Entry :
              \/ AppliedLists(ops, list)[t][e] = list[t][e]
              \/ list[t][e] = 0 /\ AppliedLists(ops, list)[t][e] = 1
<1>1. ASSUME NEW t \in Section, NEW e \in Entry
      PROVE  \/ AppliedLists(ops, list)[t][e] = list[t][e]
             \/ list[t][e] = 0 /\ AppliedLists(ops, list)[t][e] = 1
  <2>1. list[t][e] \in Nat /\ AppliedLists(ops, list)[t][e] = list[t][e] + ListOf(ops.entries[t])[e]
    BY ProfileBounds DEF AppliedLists, List
  <2>2. CASE e \in ops.entries[t]
    <3>1. list[t][e] = 0
      BY <2>2 DEF EntryPlan
    <3> QED
      BY <2>1, <2>2, <3>1 DEF ListOf
  <2>3. CASE e \notin ops.entries[t]
    BY <2>1, <2>3 DEF ListOf
  <2> QED
    BY <2>2, <2>3
<1>2. \A t \in Section, e \in Entry : AppliedLists(ops, list)[t][e] \in 0 .. MaxCopies
  BY <1>1, ProfileBounds DEF List
<1>3. AppliedLists(ops, list) \in [Section -> List]
  BY <1>2 DEF AppliedLists, List
<1> QED
  BY <1>1, <1>3

LEMMA SelectionKeeps ==
  ASSUME TypeInv, NEW r \in Request, DecideSelection(r)
  PROVE  TypeInv'
<1>1. /\ req[r] \in RequestRecord /\ Serves(req[r])
      /\ req[r].kind = "apply" /\ req[r].pc = "readSection"
  BY DEF TypeInv, ProfileTypeOK, DecideSelection, ReadAll, At
<1> DEFINE d == upload[req[r].cv].draft
           plan == EntryPlan(d, req[r].list)
<1>2. d \in DraftRecord
  BY <1>1, DraftOf DEF Serves
<1>3. CASE End(r)
  BY <1>3, MovesKeep, ServedMove DEF DecideSelection
<1>4. CASE ~End(r)
  <2>1. PICK F \in SUBSET FieldPlan(d, req[r].row),
             E \in [Section -> SUBSET UNION {plan[t] : t \in Section}] :
          LET ops == [fields |-> F, entries |-> E] IN
          /\ \A t \in Section : E[t] \subseteq plan[t]
          /\ Go(r, [req[r] EXCEPT !.pc = "upsert", !.ops = ops, !.todo = Section,
                      !.row = AppliedRow(ops, d, @), !.list = AppliedLists(ops, @)])
    BY <1>4 DEF DecideSelection
  <2> DEFINE ops == [fields |-> F, entries |-> E]
             q == [req[r] EXCEPT !.pc = "upsert", !.ops = ops, !.todo = Section,
                     !.row = AppliedRow(ops, d, @), !.list = AppliedLists(ops, @)]
  <2>2. ops \in [fields : SUBSET Field, entries : [Section -> SUBSET Entry]]
    <3>1. F \in SUBSET Field
      BY DEF FieldPlan
    <3>2. \A t \in Section : plan[t] \subseteq Entry
      BY <1>2 DEF EntryPlan, DraftRecord
    <3>3. E \in [Section -> SUBSET Entry]
      BY <3>2
    <3> QED
      BY <3>1, <3>3
  <2>3. AppliedLists(ops, req[r].list) \in [Section -> List]
    <3>1. req[r].list \in [Section -> List]
      BY <1>1 DEF RequestRecord
    <3>2. \A t \in Section : ops.entries[t] \subseteq EntryPlan(d, req[r].list)[t]
      BY <2>1
    <3> QED
      BY <1>2, <2>2, <3>1, <3>2, AppliedListsTyping
  <2>4. AppliedRow(ops, d, req[r].row) \in Row
    BY <1>1, <1>2 DEF AppliedRow, DraftRecord, RequestRecord, Row
  <2>5. q \in RequestRecord
    <3> HIDE DEF ops
    <3> QED
      BY <1>1, <2>2, <2>3, <2>4 DEF RequestRecord, RequestPC
  <2>6. Serves(q)
    <3> HIDE DEF ops
    <3> QED
      BY <1>1 DEF Serves, RequestRecord
  <2>7. Go(r, q)
    BY <2>1
  <2> QED
    BY <2>5, <2>6, <2>7, MovesKeep, ServedMove DEF DecideSelection
<1> QED
  BY <1>3, <1>4

LEMMA CountsKeep ==
  ASSUME TypeInv, NEW r \in Request, UpdateParseRun(r) \/ CreateAudit(r)
  PROVE  TypeInv'
<1>1. /\ req[r] \in RequestRecord /\ Serves(req[r])
      /\ audited \in [Uploads -> Nat] /\ parseRun \in [Uploads -> RunRecord]
  BY DEF TypeInv, ProfileTypeOK
<1>2. PICK n \in Nat : n = SelectedOps(req[r].ops)
  BY <1>1, SelectedCount DEF RequestRecord
<1>3. CASE UpdateParseRun(r)
  <2>1. PICK u \in Uploads : u = req[r].cv /\ Parsed(u)
    BY <1>1, <1>3 DEF UpdateParseRun, Serves, Parsed
  <2>2. PICK st \in {"partially_applied", "fully_applied"} :
          parseRun' = [parseRun EXCEPT ![u] = [status |-> st, count |-> req[r].base + n]]
    BY <1>2, <1>3, <2>1 DEF UpdateParseRun
  <2>3. req[r].base + n \in Nat
    BY <1>1, <1>2 DEF RequestRecord
  <2>4. parseRun' \in [Uploads -> RunRecord]
    BY <1>1, <2>2, <2>3 DEF RunRecord
  <2>5. RowsGrow /\ DraftsKnown' /\ Parsed(u)'
    BY <1>1, <1>3, <2>1, <2>2
    DEF UpdateParseRun, RowsGrow, DraftsKnown, TypeInv, Done, Parsed
  <2>6. PICK q \in RequestRecord : q = [req[r] EXCEPT !.pc = "audit"]
    BY <1>1 DEF RequestRecord, RequestPC
  <2>7. Serves(q)'
    <3>1. q.kind = "review" /\ q.cv = u /\ q.pc = "audit"
      BY <1>1, <1>3, <2>1, <2>6 DEF RequestRecord, UpdateParseRun
    <3> QED
      BY <2>5, <3>1 DEF Serves
  <2>8. Go(r, q)
    BY <1>3, <2>6 DEF UpdateParseRun
  <2> QED
    BY <1>3, <2>4, <2>5, <2>7, <2>8, GoKeeps, ServedMove
    DEF UpdateParseRun, NoProfile, profile, TypeInv, ProfileTypeOK
<1>4. CASE CreateAudit(r)
  <2>1. audited' \in [Uploads -> Nat]
    <3> DEFINE m == SelectedOps(req[r].ops)
    <3>1. audited' = [audited EXCEPT ![req[r].cv] = @ + m]
      BY <1>4 DEF CreateAudit
    <3>2. m \in Nat
      BY <1>2
    <3>3. ASSUME NEW u \in Uploads PROVE audited'[u] \in {audited[u], audited[u] + m}
      BY <1>1, <3>1
    <3>4. DOMAIN audited' = Uploads /\ audited' = [u \in Uploads |-> audited'[u]]
      BY <1>1, <3>1
    <3> HIDE DEF m
    <3>5. \A u \in Uploads : audited'[u] \in Nat
      BY <1>1, <3>2, <3>3
    <3> QED
      BY <3>4, <3>5
  <2>2. /\ DraftsKnown'
        /\ req' \in [Request -> RequestRecord] /\ loop' \in Request \cup {Nil}
        /\ \A p \in Request : Serves(req[p])'
    BY <1>4, RequestsKeep DEF CreateAudit
  <2> QED
    BY <1>4, <2>1, <2>2, ServedMove
    DEF CreateAudit, NoProfile, profile, TypeInv, ProfileTypeOK
<1> QED
  BY <1>3, <1>4

LEMMA FailuresKeep ==
  ASSUME TypeInv, ServerStops \/ \E r \in Request : RequestRaises(r)
  PROVE  TypeInv'
<1>1. failures' \in 0 .. MaxFailures
  BY ProfileBounds DEF TypeInv, ProfileTypeOK, ServerStops, RequestRaises
<1>2. CASE \E r \in Request : RequestRaises(r)
  BY <1>1, <1>2, MovesKeep DEF RequestRaises, TypeInv, ProfileTypeOK
<1>3. CASE ServerStops
  <2>1. DraftsKnown'
    BY <1>3 DEF ServerStops, NoCv, cvs, DraftsKnown, TypeInv, Done, Parsed
  <2>2. Blank("done") \in RequestRecord
    BY BlankTyping DEF RequestPC
  <2>3. \A p \in Request : req'[p] = Blank("done") \/ req'[p] = req[p]
    BY <1>3 DEF ServerStops
  <2>4. req' \in [Request -> RequestRecord]
    BY <1>3, <2>2 DEF ServerStops, TypeInv, ProfileTypeOK
  <2>5. ASSUME NEW p \in Request PROVE Serves(req[p])'
    <3>1. CASE req'[p] = Blank("done")
      BY <3>1 DEF Serves, Blank
    <3>2. CASE req'[p] = req[p]
      BY <1>3, <3>2 DEF ServerStops, NoCv, cvs, TypeInv, Serves, Done, Parsed
    <3> QED
      BY <2>3, <3>1, <3>2
  <2> QED
    BY <1>1, <1>3, <2>1, <2>4, <2>5
    DEF ServerStops, NoProfile, profile, NoCv, cvs, TypeInv, ProfileTypeOK
<1> QED
  BY <1>2, <1>3

LEMMA TypeStep == TypeInv /\ [ProfileNext]_profileVars => TypeInv'
<1> SUFFICES ASSUME TypeInv, [ProfileNext]_profileVars PROVE TypeInv'
  OBVIOUS
<1>1. ASSUME NEW r \in Request, Arrive(r) PROVE TypeInv'
  BY <1>1, EditsKeep, EntriesKeep, LinkKeeps, UploadKeeps, ApplyKeeps DEF Arrive
<1>2. ASSUME NEW r \in Request, Serve(r) PROVE TypeInv'
  BY <1>2, ReadsKeep, UpsertKeeps, ReplaceKeeps, RowsKeep, AutoApplyKeeps,
     SelectionKeeps, CountsKeep DEF Serve
<1>3. CASE UNCHANGED profileVars
  BY <1>3 DEF profileVars, TypeInv, ProfileTypeOK, DraftsKnown, Serves, Done, Parsed
<1> QED
  BY <1>1, <1>2, <1>3, FailuresKeep DEF ProfileNext, AllDone

LEMMA TypeStart == ProfileInit => TypeInv
<1> SUFFICES ASSUME ProfileInit PROVE TypeInv
  OBVIOUS
<1>1. Blank("waiting") \in RequestRecord
  BY BlankTyping DEF RequestPC
<1>2. req \in [Request -> RequestRecord] /\ \A r \in Request : Serves(req[r])
  BY <1>1 DEF ProfileInit, Serves, Blank
<1>3. row \in Row /\ section \in [Section -> List]
  BY ProfileBounds DEF ProfileInit, BlankRow, Row, EmptyList, List
<1>4. upload \in [Uploads -> UploadRecord] /\ parseRun \in [Uploads -> RunRecord] /\ DraftsKnown
  BY DEF ProfileInit, NoUpload, NoRun, UploadRecord, RunRecord, DraftsKnown, Done, Parsed
<1>5. audited \in [Uploads -> Nat] /\ applied \in [Uploads -> Nat]
  BY DEF ProfileInit
<1>6. loop \in Request \cup {Nil} /\ linked \in BOOLEAN /\ overlapped \in BOOLEAN
  BY DEF ProfileInit
<1>7. failures \in 0 .. MaxFailures
  BY ProfileBounds DEF ProfileInit
<1> QED
  BY <1>2, <1>3, <1>4, <1>5, <1>6, <1>7 DEF TypeInv, ProfileTypeOK

(* The rows of the profile and the copies every request holds keep their    *)
(* types, for any number of requests, sections, entries and drafts.         *)
THEOREM ProfileTyped == ProfileSpec => []ProfileTypeOK
<1>1. TypeInv => ProfileTypeOK
  BY DEF TypeInv
<1> QED
  BY <1>1, TypeStart, TypeStep, PTL DEF ProfileSpec

(***************************************************************************)
(* No entry of a CV twice: the lists in the tables have it at most once,   *)
(* and so has every copy a request may yet write back, whenever it took    *)
(* it; a stale copy loses entries but cannot bring a second one.           *)
(***************************************************************************)
Single(lists) == \A s \in Section, e \in Entry \ Own : lists[s][e] <= 1

SingleInv == Single(section) /\ \A r \in Request : Single(req[r].list)

LEMMA BlankSingle == \A pc : Single(Blank(pc).list)
BY DEF Single, Blank, EmptyList

LEMMA CopiesStaySingle ==
  ASSUME TypeInv, SingleInv, NEW r \in Request,
         \/ End(r)
         \/ \E q \in RequestRecord : Single(q.list) /\ req' = [req EXCEPT ![r] = q]
  PROVE  \A p \in Request : Single(req'[p].list)
BY BlankSingle DEF End, SingleInv, TypeInv, ProfileTypeOK

LEMMA SavedSingle ==
  ASSUME TypeInv, SingleInv, NEW r \in Request, NEW s \in Section, NEW list \in List,
         \A e \in Entry \ Own : list[e] <= section[s][e],
         SaveList(r, s, list), UNCHANGED section
  PROVE  SingleInv'
<1> DEFINE q == [Blank("replace") EXCEPT !.kind = "edit", !.list = [@ EXCEPT ![s] = list],
                   !.todo = {s}]
<1>1. q \in RequestRecord
  BY BlankTyping DEF RequestRecord, RequestPC
<1>2. Single(q.list)
  <2>1. q.list = [[t \in Section |-> EmptyList] EXCEPT ![s] = list]
    BY DEF Blank
  <2>2. \A e \in Entry \ Own : list[e] \in Nat /\ section[s][e] \in Nat /\ section[s][e] <= 1
    BY ProfileBounds DEF SingleInv, Single, List, TypeInv, ProfileTypeOK
  <2> QED
    BY <2>1, <2>2 DEF Single, EmptyList
<1>3. \A p \in Request : Single(req'[p].list)
  BY <1>1, <1>2, CopiesStaySingle DEF SaveList, Go
<1> QED
  BY <1>3 DEF SingleInv

LEMMA EntriesStaySingle ==
  ASSUME TypeInv, SingleInv, NEW r \in Request,
         CreateEntry(r) \/ PatchEntry(r) \/ DeleteEntry(r)
  PROVE  SingleInv'
<1>1. section \in [Section -> List] /\ Own \subseteq Entry /\ MaxCopies \in Nat
  BY OwnAssumption, ProfileBounds DEF TypeInv, ProfileTypeOK
<1>2. UNCHANGED section
  BY DEF CreateEntry, PatchEntry, DeleteEntry, NoProfile, profile
<1>3. CASE CreateEntry(r)
  <2>1. PICK s \in Section, e \in Own :
          HasRoom(s, e) /\ SaveList(r, s, [section[s] EXCEPT ![e] = @ + 1])
    BY <1>3 DEF CreateEntry
  <2> DEFINE list == [section[s] EXCEPT ![e] = @ + 1]
  <2>2. list \in List
    BY <1>1, <2>1 DEF HasRoom, List
  <2>3. \A x \in Entry \ Own : list[x] <= section[s][x]
    BY <1>1 DEF List
  <2> QED
    BY <1>2, <2>1, <2>2, <2>3, SavedSingle
<1>4. CASE PatchEntry(r)
  <2>1. PICK s \in Section, e \in Entry, o \in Own :
          /\ e # o /\ Listed(s, e) /\ HasRoom(s, o)
          /\ SaveList(r, s, [section[s] EXCEPT ![e] = @ - 1, ![o] = @ + 1])
    BY <1>4 DEF PatchEntry
  <2> DEFINE list == [section[s] EXCEPT ![e] = @ - 1, ![o] = @ + 1]
  <2>2. list \in List
    BY <1>1, <2>1 DEF HasRoom, Listed, List
  <2>3. \A x \in Entry \ Own : list[x] <= section[s][x]
    BY <1>1, <2>1 DEF List
  <2> QED
    BY <1>2, <2>1, <2>2, <2>3, SavedSingle
<1>5. CASE DeleteEntry(r)
  <2>1. PICK s \in Section, e \in Entry :
          Listed(s, e) /\ SaveList(r, s, [section[s] EXCEPT ![e] = @ - 1])
    BY <1>5 DEF DeleteEntry
  <2> DEFINE list == [section[s] EXCEPT ![e] = @ - 1]
  <2>2. list \in List
    BY <1>1, <2>1 DEF Listed, List
  <2>3. \A x \in Entry \ Own : list[x] <= section[s][x]
    BY <1>1, <2>1 DEF List
  <2> QED
    BY <1>2, <2>1, <2>2, <2>3, SavedSingle
<1> QED
  BY <1>3, <1>4, <1>5

(* The requests that hold no list of their own, or the one of the tables. *)
LEMMA OthersStaySingle ==
  ASSUME TypeInv, SingleInv, NEW r \in Request,
         \/ PatchBasicInfo(r) \/ PatchPreferences(r) \/ UploadAvatar(r) \/ PutProfile(r)
         \/ LinkCertificate(r) \/ UploadCv(r) \/ ApplySelected(r)
  PROVE  SingleInv'
<1>1. UNCHANGED section
  BY DEF PatchBasicInfo, PatchPreferences, UploadAvatar, PutProfile, LinkCertificate,
         UploadCv, ApplySelected, NoProfile, profile
<1>2. TypeInv'
  BY EditsKeep, LinkKeeps, UploadKeeps, ApplyKeeps
<1>3. \A p \in Request \ {r} : req'[p] = req[p]
  BY DEF PatchBasicInfo, PatchPreferences, UploadAvatar, PutProfile, LinkCertificate,
         UploadCv, ApplySelected, Go, End, TypeInv, ProfileTypeOK
<1>4. Single(req'[r].list)
  <2>1. req'[r].list \in {section, [s \in Section |-> EmptyList]}
    <3> USE DEF Go, Blank, TypeInv, ProfileTypeOK
    <3>1. CASE PatchBasicInfo(r)
      BY <3>1 DEF PatchBasicInfo
    <3>2. CASE PatchPreferences(r)
      BY <3>2 DEF PatchPreferences
    <3>3. CASE UploadAvatar(r)
      BY <3>3 DEF UploadAvatar
    <3>4. CASE PutProfile(r)
      BY <3>4 DEF PutProfile
    <3>5. CASE LinkCertificate(r)
      BY <3>5 DEF LinkCertificate, End
    <3>6. CASE UploadCv(r)
      BY <3>6 DEF UploadCv
    <3>7. CASE ApplySelected(r)
      BY <3>7 DEF ApplySelected
    <3> QED
      BY <3>1, <3>2, <3>3, <3>4, <3>5, <3>6, <3>7
  <2> QED
    BY <2>1 DEF SingleInv, Single, EmptyList
<1> QED
  BY <1>1, <1>3, <1>4 DEF SingleInv

(* The record of a request after a step that leaves it in flight. *)
Rewritten(r, lists) == req' = [req EXCEPT ![r] = req'[r]] /\ req'[r].list = lists

LEMMA GoRewrites ==
  ASSUME TypeInv, NEW r \in Request, NEW q, Go(r, q)
  PROVE  Rewritten(r, q.list)
BY DEF Go, Rewritten, TypeInv, ProfileTypeOK

LEMMA WrittenSingle ==
  ASSUME TypeInv, NEW r \in Request, Written(r)
  PROVE  End(r) \/ Rewritten(r, req[r].list)
<1> DEFINE q == [req[r] EXCEPT !.kind = "review", !.pc = "readRow"]
<1>1. q.list = req[r].list
  BY DEF RequestRecord, TypeInv, ProfileTypeOK
<1>2. End(r) \/ Go(r, q)
  BY DEF Written
<1> QED
  BY <1>1, <1>2, GoRewrites

(* A handler that reads nothing into its lists keeps the ones it has. *)
LEMMA KeptSingle ==
  ASSUME TypeInv, SingleInv, NEW r \in Request,
         \/ ReadRow(r) \/ ReadMeta(r) \/ ReadLatestRun(r) \/ Upsert(r)
         \/ FinalizeUpload(r) \/ CreateParseRun(r) \/ UpdateParseRun(r) \/ CreateAudit(r)
  PROVE  SingleInv'
<1>1. UNCHANGED section
  BY DEF ReadRow, ReadMeta, ReadLatestRun, Upsert, FinalizeUpload, CreateParseRun,
         UpdateParseRun, CreateAudit, NoProfile, profile
<1>2. req[r] \in RequestRecord /\ Single(req[r].list)
  BY DEF TypeInv, ProfileTypeOK, SingleInv
<1>3. End(r) \/ \E q \in RequestRecord : Single(q.list) /\ req' = [req EXCEPT ![r] = q]
  <2>1. TypeInv'
    BY ReadsKeep, UpsertKeeps, RowsKeep, CountsKeep
  <2>2. End(r) \/ Rewritten(r, req[r].list)
    <3> USE <1>2 DEF Go, RequestRecord, TypeInv, ProfileTypeOK, Rewritten
    <3>1. CASE ReadRow(r)
      BY <3>1 DEF ReadRow
    <3>2. CASE ReadMeta(r)
      BY <3>2 DEF ReadMeta
    <3>3. CASE ReadLatestRun(r)
      <4> DEFINE q(u) == [req[r] EXCEPT !.cv = u, !.pc = "readRow"]
      <4>1. PICK u \in Uploads : Go(r, q(u))
        BY <3>3 DEF ReadLatestRun
      <4>2. q(u).list = req[r].list
        OBVIOUS
      <4> QED
        BY <4>1, <4>2, GoRewrites
    <3>4. CASE Upsert(r)
      <4> DEFINE q1 == [req[r] EXCEPT !.kind = "autoApply", !.pc = "readLatest"]
                 q2 == [req[r] EXCEPT !.pc = "replace"]
      <4>1. q1.list = req[r].list /\ q2.list = req[r].list
        OBVIOUS
      <4>2. Go(r, q1) \/ Go(r, q2) \/ Written(r)
        BY <3>4 DEF Upsert
      <4> QED
        BY <4>1, <4>2, GoRewrites, WrittenSingle
    <3>5. CASE FinalizeUpload(r)
      BY <3>5 DEF FinalizeUpload
    <3>6. CASE CreateParseRun(r)
      BY <3>6 DEF CreateParseRun
    <3>7. CASE UpdateParseRun(r)
      BY <3>7 DEF UpdateParseRun
    <3>8. CASE CreateAudit(r)
      BY <3>8 DEF CreateAudit
    <3> QED
      BY <3>1, <3>2, <3>3, <3>4, <3>5, <3>6, <3>7, <3>8
  <2> QED
    BY <1>2, <2>1, <2>2 DEF TypeInv, ProfileTypeOK, Rewritten
<1>4. \A p \in Request : Single(req'[p].list)
  BY <1>3, CopiesStaySingle
<1> QED
  BY <1>1, <1>4 DEF SingleInv

LEMMA ReadSectionSingle ==
  ASSUME TypeInv, SingleInv, NEW r \in Request, ReadSection(r)
  PROVE  SingleInv'
<1>1. req[r] \in RequestRecord /\ Single(req[r].list) /\ section \in [Section -> List]
  BY DEF TypeInv, ProfileTypeOK, SingleInv
<1> DEFINE s == First(req[r].todo)
           q == [req[r] EXCEPT !.list = [@ EXCEPT ![s] = section[s]], !.todo = @ \ {s}]
<1>2. Go(r, q)
  BY DEF ReadSection
<1> HIDE DEF s
<1>3. q \in RequestRecord
  BY <1>1 DEF RequestRecord
<1>4. q.list = [req[r].list EXCEPT ![s] = section[s]]
  BY <1>1 DEF RequestRecord
<1>5. Single(q.list)
  BY <1>1, <1>4 DEF Single, SingleInv, RequestRecord
<1> HIDE DEF q
<1>6. \A p \in Request : Single(req'[p].list)
  BY <1>2, <1>3, <1>5, CopiesStaySingle DEF Go
<1> QED
  BY <1>6 DEF SingleInv, ReadSection, NoProfile, profile

LEMMA ReplaceSingle ==
  ASSUME TypeInv, SingleInv, NEW r \in Request, ReplaceSection(r)
  PROVE  SingleInv'
<1> DEFINE s == First(req[r].todo)
<1>1. req[r] \in RequestRecord /\ Single(req[r].list) /\ section \in [Section -> List]
  BY DEF TypeInv, ProfileTypeOK, SingleInv
<1>2. section' = section \/ section' = [section EXCEPT ![s] = req[r].list[s]]
  BY DEF ReplaceSection
<1>3. Single(section')
  <2> HIDE DEF s
  <2> QED
    BY <1>1, <1>2 DEF Single, SingleInv
<1>4. TypeInv'
  BY ReplaceKeeps
<1>5. End(r) \/ Rewritten(r, req[r].list)
  <2> DEFINE q == [req[r] EXCEPT !.todo = @ \ {s}]
  <2>1. q.list = req[r].list
    BY <1>1 DEF RequestRecord
  <2>2. End(r) \/ Written(r) \/ Go(r, q)
    BY DEF ReplaceSection
  <2> QED
    BY <2>1, <2>2, GoRewrites, WrittenSingle
<1>6. End(r) \/ \E q \in RequestRecord : Single(q.list) /\ req' = [req EXCEPT ![r] = q]
  BY <1>1, <1>4, <1>5 DEF TypeInv, ProfileTypeOK, Rewritten
<1>7. \A p \in Request : Single(req'[p].list)
  BY <1>6, CopiesStaySingle
<1> QED
  BY <1>3, <1>7 DEF SingleInv

LEMMA DecisionsSingle ==
  ASSUME TypeInv, SingleInv, NEW r \in Request, DecideAutoApply(r) \/ DecideSelection(r)
  PROVE  SingleInv'
<1>1. /\ req[r] \in RequestRecord /\ Serves(req[r]) /\ Single(req[r].list)
      /\ req[r].list \in [Section -> List]
      /\ req[r].kind \in {"autoApply", "apply"} /\ req[r].pc = "readSection"
  BY DEF TypeInv, ProfileTypeOK, SingleInv, DecideAutoApply, DecideSelection, ReadAll, At,
         RequestRecord
<1> DEFINE d == upload[req[r].cv].draft
<1>2. d \in DraftRecord
  BY <1>1, DraftOf DEF Serves
<1>3. TypeInv' /\ UNCHANGED section
  BY AutoApplyKeeps, SelectionKeeps DEF DecideAutoApply, DecideSelection, NoProfile, profile
<1>4. CASE End(r)
  BY <1>3, <1>4, CopiesStaySingle DEF SingleInv
<1>5. CASE DecideAutoApply(r) /\ ~End(r)
  <2> DEFINE written(new, todo) ==
               [req[r] EXCEPT !.row = new, !.todo = todo, !.pc = "upsert",
                  !.list = [s \in Section |-> ListOf(d.entries[s])]]
  <2>1. Rewritten(r, [s \in Section |-> ListOf(d.entries[s])])
    <3>1. \A new, todo : written(new, todo).list = [s \in Section |-> ListOf(d.entries[s])]
      BY <1>1 DEF RequestRecord
    <3>2. \E new, todo : Go(r, written(new, todo))
      <4>1. CASE d.use = "pivot"
        BY <1>5, <4>1 DEF DecideAutoApply
      <4>2. CASE d.use = "replace"
        BY <1>5, <4>2 DEF DecideAutoApply
      <4>3. CASE d.use \notin {"pivot", "replace"}
        BY <1>5, <4>3 DEF DecideAutoApply
      <4> QED
        BY <4>1, <4>2, <4>3
    <3> HIDE DEF written
    <3> QED
      BY <3>1, <3>2, GoRewrites
  <2>2. Single(req'[r].list)
    BY <2>1 DEF Single, ListOf, Rewritten
  <2> QED
    BY <1>3, <2>1, <2>2, CopiesStaySingle DEF SingleInv, TypeInv, ProfileTypeOK, Rewritten
<1>6. CASE DecideSelection(r) /\ ~End(r)
  <2> DEFINE plan == EntryPlan(d, req[r].list)
  <2>1. PICK F \in SUBSET FieldPlan(d, req[r].row),
             E \in [Section -> SUBSET UNION {plan[t] : t \in Section}] :
          LET ops == [fields |-> F, entries |-> E] IN
          /\ \A t \in Section : E[t] \subseteq plan[t]
          /\ Go(r, [req[r] EXCEPT !.pc = "upsert", !.ops = ops, !.todo = Section,
                      !.row = AppliedRow(ops, d, @), !.list = AppliedLists(ops, @)])
    BY <1>6 DEF DecideSelection
  <2> DEFINE ops == [fields |-> F, entries |-> E]
  <2>2. /\ req' = [req EXCEPT ![r] = req'[r]]
        /\ req'[r].list = AppliedLists(ops, req[r].list)
    BY <1>1, <2>1 DEF Go, RequestRecord, TypeInv, ProfileTypeOK
  <2>3. ops \in [fields : SUBSET Field, entries : [Section -> SUBSET Entry]]
    <3>1. F \in SUBSET Field
      BY DEF FieldPlan
    <3>2. \A t \in Section : plan[t] \subseteq Entry
      BY <1>2 DEF EntryPlan, DraftRecord
    <3>3. E \in [Section -> SUBSET Entry]
      BY <3>2
    <3> QED
      BY <3>1, <3>3
  <2>4. \A t \in Section : ops.entries[t] \subseteq EntryPlan(d, req[r].list)[t]
    BY <2>1
  <2>5. \A t \in Section, e \in Entry :
          \/ AppliedLists(ops, req[r].list)[t][e] = req[r].list[t][e]
          \/ AppliedLists(ops, req[r].list)[t][e] = 1
    BY <1>1, <1>2, <2>3, <2>4, AppliedListsTyping
  <2>6. Single(req'[r].list)
    <3> HIDE DEF ops
    <3> QED
      BY <1>1, <2>2, <2>5 DEF Single
  <2> QED
    BY <1>3, <2>2, <2>6, CopiesStaySingle DEF SingleInv, TypeInv, ProfileTypeOK
<1> QED
  BY <1>4, <1>5, <1>6

LEMMA SingleStep == TypeInv /\ SingleInv /\ [ProfileNext]_profileVars => SingleInv'
<1> SUFFICES ASSUME TypeInv, SingleInv, [ProfileNext]_profileVars PROVE SingleInv'
  OBVIOUS
<1>1. ASSUME NEW r \in Request, Arrive(r) PROVE SingleInv'
  BY <1>1, EntriesStaySingle, OthersStaySingle DEF Arrive
<1>2. ASSUME NEW r \in Request, Serve(r) PROVE SingleInv'
  BY <1>2, KeptSingle, ReadSectionSingle, ReplaceSingle, DecisionsSingle DEF Serve
<1>3. ASSUME NEW r \in Request, RequestRaises(r) PROVE SingleInv'
  <2>1. \A p \in Request : Single(req'[p].list)
    BY <1>3, CopiesStaySingle DEF RequestRaises
  <2> QED
    BY <1>3, <2>1 DEF RequestRaises, NoProfile, profile, SingleInv
<1>4. CASE ServerStops
  <2>1. ASSUME NEW p \in Request PROVE Single(req'[p].list)
    <3>1. req'[p] = Blank("done") \/ req'[p] = req[p]
      BY <1>4 DEF ServerStops
    <3> QED
      BY <3>1, BlankSingle DEF SingleInv
  <2> QED
    BY <1>4, <2>1 DEF ServerStops, NoProfile, profile, SingleInv
<1>5. CASE UNCHANGED profileVars
  BY <1>5 DEF profileVars, SingleInv
<1> QED
  BY <1>1, <1>2, <1>3, <1>4, <1>5 DEF ProfileNext, AllDone

(* No entry of a CV is in a section twice, however requests interleave,     *)
(* fail or are repeated.                                                    *)
THEOREM EntriesOnce == ProfileSpec => []NoDuplicateEntries
<1>1. ProfileInit => SingleInv
  BY BlankSingle DEF ProfileInit, SingleInv, Single, EmptyList
<1>2. SingleInv => NoDuplicateEntries
  BY DEF SingleInv, Single, NoDuplicateEntries
<1> QED
  BY <1>1, <1>2, TypeStart, TypeStep, SingleStep, PTL DEF ProfileSpec

LinkedKnown == linked => "language" \in Section

LEMMA LinkedStep == LinkedKnown /\ [ProfileNext]_profileVars => LinkedKnown'
<1> SUFFICES ASSUME LinkedKnown, [ProfileNext]_profileVars PROVE LinkedKnown'
  OBVIOUS
<1>1. ASSUME NEW r \in Request, Arrive(r) PROVE LinkedKnown'
  BY <1>1 DEF LinkedKnown, Arrive, PatchBasicInfo, PatchPreferences, UploadAvatar, PutProfile,
     CreateEntry, PatchEntry, DeleteEntry, LinkCertificate, UploadCv, ApplySelected,
     NoProfile, profile
<1>2. ASSUME NEW r \in Request, Serve(r) PROVE UNCHANGED linked
  BY <1>2 DEF Serve, ReadRow, ReadSection, ReadMeta, Upsert, ReplaceSection, FinalizeUpload,
     CreateParseRun, ReadLatestRun, DecideAutoApply, DecideSelection, UpdateParseRun,
     CreateAudit, NoProfile, profile
<1> QED
  BY <1>1, <1>2 DEF LinkedKnown, ProfileNext, RequestRaises, ServerStops, AllDone, NoProfile,
     profile, profileVars

(* Only the replacement of a section changes entries, and the foreign key   *)
(* refuses it for the languages a certificate refers to.                    *)
THEOREM DocumentedStay == ProfileSpec => DocumentedLanguagesStay
<1>1. ASSUME TypeInv, LinkedKnown, ProfileNext, linked
      PROVE  section'["language"] = section["language"]
  <2>1. ASSUME NEW r \in Request, ReplaceSection(r)
        PROVE  section'["language"] = section["language"]
    <3>1. CASE Refused(First(req[r].todo))
      BY <2>1, <3>1 DEF ReplaceSection
    <3>2. CASE First(req[r].todo) # "language"
      <4> DEFINE s == First(req[r].todo)
      <4>1. section' = section \/ section' = [section EXCEPT ![s] = req[r].list[s]]
        BY <2>1 DEF ReplaceSection
      <4> HIDE DEF s
      <4> QED
        BY <1>1, <3>2, <4>1 DEF LinkedKnown, TypeInv, ProfileTypeOK, s
    <3> QED
      BY <1>1, <3>1, <3>2 DEF Refused
  <2>2. ASSUME NEW r \in Request, Arrive(r) PROVE UNCHANGED section
    BY <2>2 DEF Arrive, PatchBasicInfo, PatchPreferences, UploadAvatar, PutProfile,
       CreateEntry, PatchEntry, DeleteEntry, LinkCertificate, UploadCv, ApplySelected,
       NoProfile, profile
  <2>3. ASSUME NEW r \in Request, Serve(r), ~ReplaceSection(r) PROVE UNCHANGED section
    BY <2>3 DEF Serve, ReadRow, ReadSection, ReadMeta, Upsert, FinalizeUpload,
       CreateParseRun, ReadLatestRun, DecideAutoApply, DecideSelection, UpdateParseRun,
       CreateAudit, NoProfile, profile
  <2> QED
    BY <1>1, <2>1, <2>2, <2>3 DEF ProfileNext, RequestRaises, ServerStops, AllDone,
       NoProfile, profile, profileVars
<1>2. TypeInv /\ LinkedKnown /\ [ProfileNext]_profileVars
        => [linked => section'["language"] = section["language"]]_profileVars
  BY <1>1 DEF profileVars
<1>3. ProfileInit => LinkedKnown
  BY DEF ProfileInit, LinkedKnown
<1> QED
  BY <1>2, <1>3, TypeStart, TypeStep, LinkedStep, PTL DEF ProfileSpec, DocumentedLanguagesStay

(***************************************************************************)
(* The latest CV: an upload holds the event loop from the insert of its    *)
(* row to its answer, so that no other upload comes between; and while     *)
(* requests come one after the other, whoever writes the row has read what *)
(* CV it names.                                                            *)
(***************************************************************************)
(* What an upload knows: nobody else uploads while it runs, so that its CV  *)
(* is the latest, and it applies a parse run only after creating its own.   *)
KnowsLatest(r, q) ==
  /\ q.pc \in {"waiting", "done"} => q.kind = "none"
  /\ q.kind = "upload" => q.pc \in {"finalize", "createRun", "readMeta", "upsert"}
  /\ q.pc = "readMeta" => q.kind \in {"put", "upload"}
  /\ q.kind \in {"upload", "autoApply"} =>
       loop = r /\ q.cv \in Uploads /\ \A u \in Uploads : Done(u) => u <= q.cv
  /\ q.kind = "autoApply" => Parsed(q.cv)
  /\ q.kind = "upload" /\ q.pc \in {"readMeta", "upsert"} => Parsed(q.cv)

(* A row about to be written names the CV the table names, or the one that  *)
(* is being uploaded.                                                       *)
NamesCv(q) ==
  q.pc \in {"readSection", "upsert"} => q.row.cv = IF q.kind = "upload" THEN q.cv ELSE row.cv

Told(u) == row.cv >= u /\ Parsed(u)
Uploading(u) == \E r \in Request : req[r].kind = "upload" /\ req[r].cv = u

(* What holds as long as requests come one after the other and none fails.  *)
OneByOne ==
  /\ \A p, q \in InFlight : p = q
  /\ \A u \in Uploads : Done(u) => Told(u) \/ Uploading(u)
  /\ \A r \in Request : NamesCv(req[r])

LatestInv ==
  /\ \A u, v \in Uploads : u < v /\ Done(v) => Done(u)
  /\ \A r \in Request : KnowsLatest(r, req[r])
  /\ failures = 0 /\ ~overlapped => OneByOne

(* One request moves on, without a new upload. *)
LEMMA LatestMoves ==
  ASSUME TypeInv, LatestInv, RowsGrow, NEW r \in Request, NEW q \in RequestRecord,
         req' = [req EXCEPT ![r] = q],
         loop' = loop \/ (loop = r /\ loop' = Nil),
         \A u \in Uploads : Done(u)' => Done(u),
         KnowsLatest(r, q)',
         failures' = 0 => failures = 0,
         ~overlapped' => ~overlapped /\ (InFlight = {} \/ r \in InFlight),
         OneByOne /\ failures' = 0 /\ ~overlapped' =>
           /\ NamesCv(q)'
           /\ \/ row'.cv = row.cv
              \/ /\ req[r].kind = "upload" /\ row'.cv = req[r].cv
                 /\ Parsed(req[r].cv)
           /\ \/ req[r].kind # "upload"
              \/ q.kind = "upload" /\ q.cv = req[r].cv
              \/ \A u \in Uploads : u = req[r].cv => Told(u)'
  PROVE  LatestInv'
<1>1. /\ req' \in [Request -> RequestRecord] /\ req'[r] = q
      /\ \A p \in Request \ {r} : req'[p] = req[p]
      /\ \A p \in Request : req[p] \in RequestRecord
  BY DEF TypeInv, ProfileTypeOK
<1>2. (\A u, v \in Uploads : u < v /\ Done(v) => Done(u))'
  BY DEF LatestInv, RowsGrow
<1>3. ASSUME NEW p \in Request PROVE KnowsLatest(p, req[p])'
  <2>1. CASE p = r
    BY <1>1, <2>1
  <2>2. CASE p # r
    <3>1. KnowsLatest(p, req[p]) /\ req'[p] = req[p]
      BY <1>1, <2>2 DEF LatestInv
    <3>2. loop = p => loop' = p
      BY <2>2
    <3>3. \A u \in Uploads : Parsed(u) => Parsed(u)'
      BY DEF RowsGrow
    <3>4. Parsed(req[p].cv) => Parsed(req[p].cv)'
      BY <3>1, <3>3 DEF Parsed
    <3> QED
      BY <3>1, <3>2, <3>4 DEF KnowsLatest
  <2> QED
    BY <2>1, <2>2
<1>4. ASSUME failures' = 0, ~overlapped' PROVE OneByOne'
  <2>1. OneByOne
    BY <1>4 DEF LatestInv
  <2>2. \A p \in Request \ {r} : p \notin InFlight
    BY <1>4, <2>1 DEF OneByOne
  <2>3. \A p \in Request \ {r} : req[p].pc \in {"waiting", "done"} /\ req[p].kind = "none"
    BY <2>2 DEF InFlight, LatestInv, KnowsLatest
  <2>4. (\A p, s \in InFlight : p = s)'
    <3>1. \A p \in Request \ {r} : p \notin InFlight'
      BY <1>1, <2>3 DEF InFlight
    <3>2. InFlight' \subseteq Request
      BY DEF InFlight
    <3> QED
      BY <3>1, <3>2
  <2>5. ASSUME NEW p \in Request PROVE NamesCv(req[p])'
    BY <1>1, <1>4, <2>1, <2>3 DEF NamesCv
  <2>6. ASSUME NEW u \in Uploads, Done(u)' PROVE Told(u)' \/ Uploading(u)'
    <3>1. Done(u) /\ (Told(u) \/ Uploading(u))
      BY <2>1, <2>6 DEF OneByOne
    <3>2. row'.cv = row.cv \/ (row'.cv >= u /\ Parsed(req[r].cv) /\ req[r].kind = "upload")
      BY <1>4, <2>1, <3>1 DEF LatestInv, KnowsLatest
    <3>3. CASE Told(u)
      <4>1. Parsed(u)'
        BY <3>3 DEF Told, RowsGrow
      <4> QED
        BY <3>2, <3>3, <4>1 DEF Told
    <3>4. CASE Uploading(u)
      <4>1. req[r].kind = "upload" /\ req[r].cv = u
        BY <2>3, <3>4 DEF Uploading
      <4>2. (q.kind = "upload" /\ q.cv = u) \/ Told(u)'
        BY <1>4, <2>1, <4>1
      <4> QED
        BY <1>1, <4>2 DEF Uploading
    <3> QED
      BY <3>1, <3>3, <3>4
  <2> QED
    BY <2>4, <2>5, <2>6 DEF OneByOne
<1> QED
  BY <1>2, <1>3, <1>4 DEF LatestInv

(* An answer ends no upload unless something failed. *)
LEMMA LatestEnds ==
  ASSUME TypeInv, LatestInv, NEW r \in Request, End(r),
         UNCHANGED <<upload, parseRun>>, row'.cv = row.cv,
         failures' = 0 => failures = 0 /\ req[r].kind # "upload",
         ~overlapped' => ~overlapped /\ (InFlight = {} \/ r \in InFlight)
  PROVE  LatestInv'
<1>1. RowsGrow /\ \A u \in Uploads : Done(u)' => Done(u)
  BY DEF RowsGrow, Done, Parsed
<1>2. PICK q \in RequestRecord : q = Blank("done")
  BY BlankTyping DEF RequestPC
<1>3. q.kind = "none" /\ q.pc = "done"
  BY <1>2 DEF Blank
<1>4. req' = [req EXCEPT ![r] = q] /\ (loop' = loop \/ (loop = r /\ loop' = Nil))
  BY <1>2 DEF End
<1>5. KnowsLatest(r, q)' /\ NamesCv(q)'
  BY <1>3 DEF KnowsLatest, NamesCv
<1> QED
  BY <1>1, <1>4, <1>5, LatestMoves

(* A request that is not an upload arrives. *)
LEMMA LatestBegins ==
  ASSUME TypeInv, LatestInv, NEW r \in Request, NEW q \in RequestRecord,
         Begins(r), Go(r, q), NoProfile, NoCv,
         q.kind \in {"edit", "avatar", "put", "apply"},
         q.pc \in {"upsert", "readMeta", "replace", "readRow"},
         q.pc = "readMeta" => q.kind = "put",
         q.pc = "upsert" => q.row.cv = row.cv
  PROVE  LatestInv'
<1>1. RowsGrow /\ (\A u \in Uploads : Done(u)' => Done(u)) /\ row'.cv = row.cv
  BY DEF NoProfile, profile, NoCv, cvs, RowsGrow, Done, Parsed
<1>2. req[r].kind = "none"
  BY DEF Begins, LatestInv, KnowsLatest
<1>3. KnowsLatest(r, q)' /\ NamesCv(q)'
  BY <1>1 DEF KnowsLatest, NamesCv
<1>4. /\ failures' = failures
      /\ ~overlapped' => ~overlapped /\ (InFlight = {} \/ r \in InFlight)
  BY DEF Begins
<1> QED
  BY <1>1, <1>2, <1>3, <1>4, LatestMoves DEF Go

(* A request that has arrived moves on. *)
LEMMA LatestServes ==
  ASSUME TypeInv, LatestInv, NEW r \in Request, NEW q \in RequestRecord,
         r \in InFlight, Go(r, q), NoHistory, RowsGrow, UNCHANGED row,
         \A u \in Uploads : Done(u)' => Done(u),
         KnowsLatest(r, q)',
         OneByOne => NamesCv(q),
         req[r].kind = "upload" => q.kind = "upload" /\ q.cv = req[r].cv
  PROVE  LatestInv'
<1>1. OneByOne => NamesCv(q)'
  BY DEF NamesCv
<1> QED
  BY <1>1, LatestMoves DEF Go, NoHistory

LEMMA EditsName ==
  ASSUME TypeInv, LatestInv, NEW r \in Request,
         PatchBasicInfo(r) \/ PatchPreferences(r) \/ UploadAvatar(r) \/ PutProfile(r)
  PROVE  LatestInv'
<1>1. row \in Row /\ section \in [Section -> List]
  BY DEF TypeInv, ProfileTypeOK
<1>2. CASE PatchBasicInfo(r)
  <2>1. PICK h \in Headline \cup {Nil} :
          Go(r, [Blank("upsert") EXCEPT !.kind = "edit", !.row = [row EXCEPT !.headline = h]])
    BY <1>2 DEF PatchBasicInfo
  <2>2. [row EXCEPT !.headline = h] \in Row /\ [row EXCEPT !.headline = h].cv = row.cv
    BY <1>1 DEF Row
  <2>3. PICK q \in RequestRecord :
          q = [Blank("upsert") EXCEPT !.kind = "edit", !.row = [row EXCEPT !.headline = h]]
    BY <2>2, BlankTyping DEF RequestRecord, RequestPC
  <2>4. q.kind = "edit" /\ q.pc = "upsert" /\ q.row.cv = row.cv
    BY <2>2, <2>3 DEF Blank
  <2> QED
    BY <1>2, <2>1, <2>3, <2>4, LatestBegins DEF PatchBasicInfo
<1>3. CASE PatchPreferences(r)
  <2>1. PICK R \in SUBSET Role :
          Go(r, [Blank("upsert") EXCEPT !.kind = "edit", !.row = [row EXCEPT !.roles = R]])
    BY <1>3 DEF PatchPreferences
  <2>2. [row EXCEPT !.roles = R] \in Row /\ [row EXCEPT !.roles = R].cv = row.cv
    BY <1>1 DEF Row
  <2>3. PICK q \in RequestRecord :
          q = [Blank("upsert") EXCEPT !.kind = "edit", !.row = [row EXCEPT !.roles = R]]
    BY <2>2, BlankTyping DEF RequestRecord, RequestPC
  <2>4. q.kind = "edit" /\ q.pc = "upsert" /\ q.row.cv = row.cv
    BY <2>2, <2>3 DEF Blank
  <2> QED
    BY <1>3, <2>1, <2>3, <2>4, LatestBegins DEF PatchPreferences
<1>4. CASE UploadAvatar(r)
  <2>1. PICK q \in RequestRecord : q = [Blank("upsert") EXCEPT !.kind = "avatar", !.row = row]
    BY <1>1, BlankTyping DEF RequestRecord, RequestPC
  <2>2. q.kind = "avatar" /\ q.pc = "upsert" /\ q.row = row
    BY <2>1 DEF Blank
  <2> QED
    BY <1>4, <2>1, <2>2, LatestBegins DEF UploadAvatar
<1>5. CASE PutProfile(r)
  <2> DEFINE p(h) == [Blank("readMeta") EXCEPT !.kind = "put", !.row = [row EXCEPT !.headline = h],
                        !.list = section, !.todo = Section]
  <2>1. PICK h \in Headline : Go(r, p(h))
    BY <1>5 DEF PutProfile
  <2>2. [row EXCEPT !.headline = h] \in Row
    BY <1>1 DEF Row
  <2>3. PICK q \in RequestRecord : q = p(h)
    BY <1>1, <2>2, BlankTyping DEF RequestRecord, RequestPC
  <2>4. q.kind = "put" /\ q.pc = "readMeta"
    BY <2>3 DEF Blank
  <2> HIDE DEF p
  <2> QED
    BY <1>5, <2>1, <2>3, <2>4, LatestBegins DEF PutProfile
<1> QED
  BY <1>2, <1>3, <1>4, <1>5

LEMMA SavesName ==
  ASSUME TypeInv, LatestInv, NEW r \in Request, NEW s \in Section, NEW list \in List,
         Begins(r), SaveList(r, s, list), NoProfile, NoCv
  PROVE  LatestInv'
<1> DEFINE p == [Blank("replace") EXCEPT !.kind = "edit", !.list = [@ EXCEPT ![s] = list],
                   !.todo = {s}]
<1>0. p \in RequestRecord
  BY BlankTyping DEF RequestRecord, RequestPC
<1>1. PICK q \in RequestRecord : q = p
  BY <1>0
<1>2. q.kind = "edit" /\ q.pc = "replace"
  BY <1>1 DEF Blank
<1> QED
  BY <1>1, <1>2, LatestBegins DEF SaveList

LEMMA EntriesName ==
  ASSUME TypeInv, LatestInv, NEW r \in Request, CreateEntry(r) \/ PatchEntry(r) \/ DeleteEntry(r)
  PROVE  LatestInv'
<1>1. section \in [Section -> List] /\ Own \subseteq Entry /\ MaxCopies \in Nat
  BY OwnAssumption, ProfileBounds DEF TypeInv, ProfileTypeOK
<1>2. CASE CreateEntry(r)
  <2>1. PICK s \in Section, e \in Own :
          HasRoom(s, e) /\ SaveList(r, s, [section[s] EXCEPT ![e] = @ + 1])
    BY <1>2 DEF CreateEntry
  <2>2. [section[s] EXCEPT ![e] = @ + 1] \in List
    BY <1>1, <2>1 DEF HasRoom, List
  <2> QED
    BY <1>2, <2>1, <2>2, SavesName DEF CreateEntry
<1>3. CASE PatchEntry(r)
  <2>1. PICK s \in Section, e \in Entry, o \in Own :
          /\ e # o /\ Listed(s, e) /\ HasRoom(s, o)
          /\ SaveList(r, s, [section[s] EXCEPT ![e] = @ - 1, ![o] = @ + 1])
    BY <1>3 DEF PatchEntry
  <2>2. [section[s] EXCEPT ![e] = @ - 1, ![o] = @ + 1] \in List
    BY <1>1, <2>1 DEF HasRoom, Listed, List
  <2> QED
    BY <1>3, <2>1, <2>2, SavesName DEF PatchEntry
<1>4. CASE DeleteEntry(r)
  <2>1. PICK s \in Section, e \in Entry :
          Listed(s, e) /\ SaveList(r, s, [section[s] EXCEPT ![e] = @ - 1])
    BY <1>4 DEF DeleteEntry
  <2>2. [section[s] EXCEPT ![e] = @ - 1] \in List
    BY <1>1, <2>1 DEF Listed, List
  <2> QED
    BY <1>4, <2>1, <2>2, SavesName DEF DeleteEntry
<1> QED
  BY <1>2, <1>3, <1>4

LEMMA OthersName ==
  ASSUME TypeInv, LatestInv, NEW r \in Request, LinkCertificate(r) \/ ApplySelected(r)
  PROVE  LatestInv'
<1>1. CASE LinkCertificate(r)
  <2>1. req[r].kind = "none"
    BY <1>1 DEF LinkCertificate, Begins, LatestInv, KnowsLatest
  <2> QED
    BY <1>1, <2>1, LatestEnds DEF LinkCertificate, Begins, NoCv, cvs
<1>2. CASE ApplySelected(r)
  <2> DEFINE p(u) == [Blank("readRow") EXCEPT !.kind = "apply", !.cv = u,
                        !.base = parseRun[u].count]
  <2>1. PICK u \in Uploads : Go(r, p(u))
    BY <1>2 DEF ApplySelected
  <2>2. parseRun[u].count \in Nat /\ u \in 0 .. MaxUploads
    BY ProfileBounds DEF TypeInv, ProfileTypeOK, RunRecord, Uploads
  <2>3. PICK q \in RequestRecord : q = p(u)
    BY <2>2, BlankTyping DEF RequestRecord, RequestPC
  <2>4. q.kind = "apply" /\ q.pc = "readRow"
    BY <2>3 DEF Blank
  <2> HIDE DEF p
  <2> QED
    BY <1>2, <2>1, <2>3, <2>4, LatestBegins DEF ApplySelected
<1> QED
  BY <1>1, <1>2

(* The new upload has the event loop and the highest id. *)
LEMMA UploadIsLatest ==
  ASSUME TypeInv, LatestInv, NEW r \in Request, UploadCv(r)
  PROVE  LatestInv'
<1>1. PICK u \in Uploads, d \in Draft :
        /\ ~Done(u) /\ \A v \in Uploads : v < u => Done(v)
        /\ upload' = [upload EXCEPT ![u] = [status |-> "pending", draft |-> d]]
        /\ req' = [req EXCEPT ![r] = [Blank("finalize") EXCEPT !.kind = "upload", !.cv = u]]
  BY DEF UploadCv
<1>2. /\ Begins(r) /\ loop = Nil /\ loop' = r
      /\ UNCHANGED <<row, parseRun>>
  BY DEF UploadCv, NoProfile, profile
<1>3. \A v \in Uploads : Done(v)' <=> Done(v) \/ v = u
  BY <1>1 DEF Done, TypeInv, ProfileTypeOK
<1>4. \A v \in Uploads : Done(v)' => v <= u
  BY <1>1, <1>3 DEF LatestInv, Uploads
<1>5. PICK q : q = [Blank("finalize") EXCEPT !.kind = "upload", !.cv = u]
  OBVIOUS
<1>6. q.kind = "upload" /\ q.pc = "finalize" /\ q.cv = u
  BY <1>5 DEF Blank
<1>7. req'[r] = q /\ \A p \in Request \ {r} : req'[p] = req[p]
  BY <1>1, <1>5 DEF TypeInv, ProfileTypeOK
<1>8. (\A v, w \in Uploads : v < w /\ Done(w) => Done(v))'
  BY <1>1, <1>3 DEF LatestInv
<1>9. ASSUME NEW p \in Request PROVE KnowsLatest(p, req[p])'
  <2>1. CASE p = r
    BY <1>2, <1>4, <1>6, <1>7, <2>1 DEF KnowsLatest
  <2>2. CASE p # r
    <3>1. KnowsLatest(p, req[p]) /\ req'[p] = req[p]
      BY <1>7, <2>2 DEF LatestInv
    <3>2. req[p].kind \notin {"upload", "autoApply"}
      BY <1>2, <3>1, NilAssumption DEF KnowsLatest
    <3> QED
      BY <3>1, <3>2 DEF KnowsLatest
  <2> QED
    BY <2>1, <2>2
<1>10. ASSUME failures' = 0, ~overlapped' PROVE OneByOne'
  <2>1. OneByOne /\ InFlight = {}
    BY <1>2, <1>10 DEF LatestInv, Begins
  <2>2. \A p \in Request \ {r} : req'[p] = req[p] /\ req[p].pc \in {"waiting", "done"}
                                   /\ req[p].kind = "none"
    BY <1>7, <2>1 DEF InFlight, LatestInv, KnowsLatest
  <2>3. (\A p, s \in InFlight : p = s)'
    BY <2>2 DEF InFlight
  <2>4. \A p \in Request : NamesCv(req[p])'
    BY <1>6, <1>7, <2>2 DEF NamesCv
  <2>5. ASSUME NEW v \in Uploads, Done(v)' PROVE Told(v)' \/ Uploading(v)'
    <3>1. CASE v = u
      BY <1>6, <1>7, <3>1 DEF Uploading
    <3>2. CASE v # u
      <4>1. Done(v)
        BY <1>3, <2>5, <3>2
      <4>2. ~Uploading(v)
        <5>1. req[r].kind = "none"
          BY <1>2 DEF Begins, LatestInv, KnowsLatest
        <5> QED
          BY <2>2, <5>1 DEF Uploading
      <4>3. Told(v)
        BY <2>1, <4>1, <4>2 DEF OneByOne
      <4> QED
        BY <1>2, <4>3 DEF Told, Parsed
    <3> QED
      BY <3>1, <3>2
  <2> QED
    BY <2>3, <2>4, <2>5 DEF OneByOne
<1> QED
  BY <1>8, <1>9, <1>10 DEF LatestInv

(* The reads of the tables. *)
LEMMA ReadsName ==
  ASSUME TypeInv, LatestInv, NEW r \in Request, ReadRow(r) \/ ReadSection(r) \/ ReadMeta(r)
  PROVE  LatestInv'
<1>1. /\ row \in Row /\ section \in [Section -> List] /\ req[r] \in RequestRecord
      /\ KnowsLatest(r, req[r]) /\ (OneByOne => NamesCv(req[r]))
  BY DEF TypeInv, ProfileTypeOK, LatestInv, OneByOne
<1>2. UNCHANGED <<row, upload, parseRun>> /\ NoHistory /\ r \in InFlight
  BY DEF ReadRow, ReadSection, ReadMeta, NoProfile, profile, NoCv, cvs, At, InFlight
<1>3. RowsGrow /\ \A u \in Uploads : Done(u)' => Done(u)
  BY <1>2 DEF RowsGrow, Done, Parsed
<1>4. CASE ReadRow(r)
  <2>1. PICK q \in RequestRecord :
          q = [req[r] EXCEPT !.row = row, !.todo = Section, !.pc = "readSection"]
    BY <1>1 DEF RequestRecord, RequestPC
  <2>2. /\ Go(r, q) /\ q.kind = req[r].kind /\ q.cv = req[r].cv
        /\ q.pc = "readSection" /\ q.row = row /\ req[r].pc = "readRow"
    BY <1>1, <1>4, <2>1 DEF ReadRow, At, RequestRecord
  <2>3. KnowsLatest(r, q)' /\ NamesCv(q)
    BY <1>1, <1>2, <2>2 DEF KnowsLatest, NamesCv, Go, Done, Parsed
  <2>4. req[r].kind # "upload"
    BY <1>1, <2>2 DEF KnowsLatest
  <2> QED
    BY <1>2, <1>3, <2>2, <2>3, <2>4, LatestServes
<1>5. CASE ReadSection(r)
  <2> DEFINE s == First(req[r].todo)
             p == [req[r] EXCEPT !.list = [@ EXCEPT ![s] = section[s]], !.todo = @ \ {s}]
  <2> HIDE DEF s
  <2>1. p \in RequestRecord
    BY <1>1 DEF RequestRecord
  <2>2. PICK q \in RequestRecord : q = p
    BY <2>1
  <2>3. /\ q.kind = req[r].kind /\ q.cv = req[r].cv /\ q.pc = req[r].pc /\ q.row = req[r].row
        /\ req[r].pc = "readSection"
    BY <1>1, <1>5, <2>2 DEF ReadSection, At, RequestRecord
  <2>4. Go(r, q)
    BY <1>5, <2>2 DEF ReadSection, s
  <2>5. KnowsLatest(r, q)' /\ (OneByOne => NamesCv(q))
    BY <1>1, <1>2, <2>3, <2>4 DEF KnowsLatest, NamesCv, Go, Done, Parsed
  <2> QED
    BY <1>2, <1>3, <2>3, <2>4, <2>5, LatestServes
<1>6. CASE ReadMeta(r)
  <2> DEFINE new == IF req[r].kind = "put" THEN [req[r].row EXCEPT !.cv = row.cv]
                    ELSE [row EXCEPT !.cv = req[r].cv]
             p == [req[r] EXCEPT !.pc = "upsert", !.row = new]
  <2>1. new \in Row /\ new.cv = IF req[r].kind = "put" THEN row.cv ELSE req[r].cv
    BY <1>1 DEF RequestRecord, Row
  <2>2. p \in RequestRecord
    BY <1>1, <2>1 DEF RequestRecord, RequestPC
  <2>3. PICK q \in RequestRecord : q = p
    BY <2>2
  <2>4. /\ q.kind = req[r].kind /\ q.cv = req[r].cv /\ q.pc = "upsert" /\ q.row = new
        /\ req[r].pc = "readMeta"
    BY <1>1, <1>6, <2>3 DEF ReadMeta, At, RequestRecord
  <2>5. Go(r, q)
    BY <1>1, <1>6, <2>3 DEF ReadMeta, RequestRecord
  <2> HIDE DEF new, p
  <2>6. req[r].kind \in {"put", "upload"}
    BY <1>1, <2>4 DEF KnowsLatest
  <2>7. KnowsLatest(r, q)' /\ NamesCv(q)
    BY <1>1, <1>2, <2>1, <2>4, <2>5, <2>6 DEF KnowsLatest, NamesCv, Go, Done, Parsed
  <2> QED
    BY <1>2, <1>3, <2>4, <2>5, <2>7, LatestServes
<1> QED
  BY <1>4, <1>5, <1>6

(* The latest parse run is the upload's own. *)
LEMMA OwnRun ==
  ASSUME TypeInv, LatestInv, NEW r \in Request, req[r].kind = "autoApply",
         NEW u \in Uploads, Latest(u)
  PROVE  u = req[r].cv
<1>1. /\ Parsed(req[r].cv) /\ req[r].cv \in Uploads
      /\ \A v \in Uploads : Done(v) => v <= req[r].cv
  BY DEF LatestInv, KnowsLatest
<1>2. u <= req[r].cv
  BY <1>1 DEF Latest, TypeInv, DraftsKnown, Parsed
<1>3. req[r].cv <= u
  BY <1>1 DEF Latest, Parsed
<1> QED
  BY <1>1, <1>2, <1>3 DEF Uploads

LEMMA LatestRunName ==
  ASSUME TypeInv, LatestInv, NEW r \in Request, ReadLatestRun(r)
  PROVE  LatestInv'
<1>1. req[r] \in RequestRecord /\ KnowsLatest(r, req[r])
  BY DEF TypeInv, ProfileTypeOK, LatestInv
<1>2. UNCHANGED <<row, upload, parseRun>> /\ NoHistory /\ r \in InFlight
  BY DEF ReadLatestRun, NoProfile, profile, NoCv, cvs, At, InFlight
<1>3. RowsGrow /\ \A u \in Uploads : Done(u)' => Done(u)
  BY <1>2 DEF RowsGrow, Done, Parsed
<1> DEFINE p(u) == [req[r] EXCEPT !.cv = u, !.pc = "readRow"]
<1>4. PICK u \in Uploads : Latest(u) /\ Go(r, p(u))
  BY DEF ReadLatestRun
<1>5. u \in 0 .. MaxUploads
  BY ProfileBounds DEF Uploads
<1>6. PICK q \in RequestRecord : q = p(u)
  BY <1>1, <1>5 DEF RequestRecord, RequestPC
<1>7. q.kind = req[r].kind /\ q.cv = u /\ q.pc = "readRow" /\ req[r].pc = "readLatest"
  BY <1>1, <1>6 DEF ReadLatestRun, At, RequestRecord
<1> HIDE DEF p
<1>8. q.kind = "autoApply" => u = req[r].cv
  BY <1>4, <1>7, OwnRun
<1>9. Go(r, q) /\ q.kind # "upload"
  BY <1>1, <1>4, <1>6, <1>7 DEF KnowsLatest
<1>10. KnowsLatest(r, q)' /\ NamesCv(q)
  BY <1>1, <1>2, <1>7, <1>8, <1>9 DEF KnowsLatest, NamesCv, Go, Done, Parsed
<1> QED
  BY <1>2, <1>3, <1>7, <1>9, <1>10, LatestServes

(* What the request does after its writes. *)
LEMMA WrittenNames ==
  ASSUME TypeInv, LatestInv, NEW r \in Request, r \in InFlight, Written(r), NoHistory,
         UNCHANGED <<upload, parseRun>>, req[r].kind # "upload", OneByOne => row'.cv = row.cv
  PROVE  LatestInv'
<1>1. req[r] \in RequestRecord /\ KnowsLatest(r, req[r])
  BY DEF TypeInv, ProfileTypeOK, LatestInv
<1>2. RowsGrow /\ \A u \in Uploads : Done(u)' => Done(u)
  BY DEF RowsGrow, Done, Parsed
<1>3. PICK q \in RequestRecord :
        /\ req' = [req EXCEPT ![r] = q] /\ (loop' = loop \/ (loop = r /\ loop' = Nil))
        /\ q.kind \in {"none", "review"} /\ q.pc \in {"readRow", "done"}
        /\ q.pc = "done" => q.kind = "none"
  <2>1. CASE req[r].kind = "apply"
    <3>1. PICK q \in RequestRecord : q = [req[r] EXCEPT !.kind = "review", !.pc = "readRow"]
      BY <1>1 DEF RequestRecord, RequestPC
    <3>2. q.kind = "review" /\ q.pc = "readRow"
      BY <1>1, <3>1 DEF RequestRecord
    <3> QED
      BY <2>1, <3>1, <3>2 DEF Written, Go
  <2>2. CASE req[r].kind # "apply"
    <3>1. Blank("done") \in RequestRecord
      BY BlankTyping DEF RequestPC
    <3> QED
      BY <2>2, <3>1 DEF Written, End, Blank
  <2> QED
    BY <2>1, <2>2
<1>4. KnowsLatest(r, q)' /\ NamesCv(q)'
  BY <1>3 DEF KnowsLatest, NamesCv
<1> QED
  BY <1>2, <1>3, <1>4, LatestMoves DEF NoHistory

LEMMA UpsertNames ==
  ASSUME TypeInv, LatestInv, NEW r \in Request, Upsert(r)
  PROVE  LatestInv'
<1>1. req[r] \in RequestRecord /\ KnowsLatest(r, req[r])
  BY DEF TypeInv, ProfileTypeOK, LatestInv
<1>2. /\ UNCHANGED <<upload, parseRun>> /\ NoHistory /\ r \in InFlight
      /\ req[r].pc = "upsert" /\ row' = req[r].row
  BY DEF Upsert, At, InFlight
<1>3. RowsGrow /\ \A u \in Uploads : Done(u)' => Done(u)
  BY <1>2 DEF RowsGrow, Done, Parsed
<1>4. OneByOne => row'.cv = IF req[r].kind = "upload" THEN req[r].cv ELSE row.cv
  BY <1>2 DEF OneByOne, NamesCv
<1>5. CASE req[r].kind = "upload"
  <2>1. PICK q \in RequestRecord : q = [req[r] EXCEPT !.kind = "autoApply", !.pc = "readLatest"]
    BY <1>1 DEF RequestRecord, RequestPC
  <2>2. Go(r, q) /\ q.kind = "autoApply" /\ q.pc = "readLatest" /\ q.cv = req[r].cv
    BY <1>1, <1>5, <2>1 DEF Upsert, RequestRecord
  <2>3. Parsed(req[r].cv)
    BY <1>1, <1>2, <1>5 DEF KnowsLatest
  <2>4. KnowsLatest(r, q)' /\ NamesCv(q)'
    BY <1>1, <1>2, <1>5, <2>2, <2>3 DEF KnowsLatest, NamesCv, Go, Done, Parsed
  <2>5. OneByOne => \A u \in Uploads : u = req[r].cv => Told(u)'
    BY <1>2, <1>4, <1>5, <2>3 DEF Told, Parsed, Uploads
  <2> QED
    BY <1>2, <1>3, <1>4, <1>5, <2>2, <2>3, <2>4, <2>5, LatestMoves DEF Go, NoHistory
<1>6. CASE req[r].kind # "upload" /\ req[r].todo = {}
  BY <1>2, <1>4, <1>6, WrittenNames DEF Upsert
<1>7. CASE req[r].kind # "upload" /\ req[r].todo # {}
  <2>1. PICK q \in RequestRecord : q = [req[r] EXCEPT !.pc = "replace"]
    BY <1>1 DEF RequestRecord, RequestPC
  <2>2. Go(r, q) /\ q.kind = req[r].kind /\ q.pc = "replace" /\ q.cv = req[r].cv
    BY <1>1, <1>7, <2>1 DEF Upsert, RequestRecord
  <2>3. KnowsLatest(r, q)' /\ NamesCv(q)'
    BY <1>1, <1>2, <1>7, <2>2 DEF KnowsLatest, NamesCv, Go, Done, Parsed
  <2> QED
    BY <1>2, <1>3, <1>4, <1>7, <2>2, <2>3, LatestMoves DEF Go, NoHistory
<1> QED
  BY <1>5, <1>6, <1>7

LEMMA ReplaceNames ==
  ASSUME TypeInv, LatestInv, NEW r \in Request, ReplaceSection(r)
  PROVE  LatestInv'
<1>1. req[r] \in RequestRecord /\ KnowsLatest(r, req[r])
  BY DEF TypeInv, ProfileTypeOK, LatestInv
<1>2. /\ UNCHANGED <<row, upload, parseRun>> /\ NoHistory /\ r \in InFlight
      /\ req[r].pc = "replace" /\ req[r].kind # "upload"
  BY <1>1 DEF ReplaceSection, At, InFlight, KnowsLatest
<1>3. RowsGrow /\ \A u \in Uploads : Done(u)' => Done(u)
  BY <1>2 DEF RowsGrow, Done, Parsed
<1> DEFINE s == First(req[r].todo)
           p == [req[r] EXCEPT !.todo = @ \ {s}]
<1>4. End(r) \/ Written(r) \/ Go(r, p)
  BY DEF ReplaceSection
<1> HIDE DEF s
<1>5. CASE End(r)
  BY <1>2, <1>5, LatestEnds DEF NoHistory
<1>6. CASE Written(r)
  BY <1>2, <1>6, WrittenNames
<1>7. CASE Go(r, p)
  <2>1. p \in RequestRecord
    BY <1>1 DEF RequestRecord
  <2>2. PICK q \in RequestRecord : q = p
    BY <2>1
  <2>3. q.kind = req[r].kind /\ q.pc = "replace" /\ q.cv = req[r].cv
    BY <1>1, <1>2, <2>2 DEF RequestRecord
  <2>4. KnowsLatest(r, q)' /\ NamesCv(q)
    BY <1>1, <1>2, <1>7, <2>2, <2>3 DEF KnowsLatest, NamesCv, Go, Done, Parsed
  <2> QED
    BY <1>2, <1>3, <1>7, <2>2, <2>4, LatestServes
<1> QED
  BY <1>4, <1>5, <1>6, <1>7

(* The steps of an upload. *)
LEMMA RowsName ==
  ASSUME TypeInv, LatestInv, NEW r \in Request, FinalizeUpload(r) \/ CreateParseRun(r)
  PROVE  LatestInv'
<1>1. /\ req[r] \in RequestRecord /\ KnowsLatest(r, req[r]) /\ Serves(req[r])
      /\ upload \in [Uploads -> UploadRecord] /\ parseRun \in [Uploads -> RunRecord]
  BY DEF TypeInv, ProfileTypeOK, LatestInv
<1>2. /\ UNCHANGED row /\ NoHistory /\ r \in InFlight
      /\ req[r].pc \in {"finalize", "createRun"} /\ req[r].kind = "upload"
  BY <1>1 DEF FinalizeUpload, CreateParseRun, NoProfile, profile, At, InFlight, Serves
<1>3. PICK u \in Uploads : u = req[r].cv /\ Done(u)
  BY <1>1, <1>2 DEF Serves, Done
<1>4. CASE FinalizeUpload(r)
  <2>1. \A v \in Uploads : (Done(v) <=> Done(v)') /\ (Parsed(v) <=> Parsed(v)')
    BY <1>1, <1>3, <1>4 DEF FinalizeUpload, Done, Parsed, UploadRecord
  <2>2. RowsGrow
    BY <2>1 DEF RowsGrow
  <2>3. PICK q \in RequestRecord : q = [req[r] EXCEPT !.pc = "createRun"]
    BY <1>1 DEF RequestRecord, RequestPC
  <2>4. Go(r, q) /\ q.kind = "upload" /\ q.pc = "createRun" /\ q.cv = u
    BY <1>1, <1>2, <1>3, <1>4, <2>3 DEF FinalizeUpload, RequestRecord
  <2>5. KnowsLatest(r, q)' /\ NamesCv(q)
    BY <1>1, <1>2, <1>3, <2>1, <2>4 DEF KnowsLatest, NamesCv, Go
  <2> QED
    BY <1>2, <1>3, <2>1, <2>2, <2>4, <2>5, LatestServes
<1>5. CASE CreateParseRun(r)
  <2>1. /\ \A v \in Uploads : (Done(v) <=> Done(v)') /\ (Parsed(v) => Parsed(v)')
        /\ Parsed(u)'
    BY <1>1, <1>3, <1>5 DEF CreateParseRun, Done, Parsed, RunRecord
  <2>2. RowsGrow
    BY <2>1 DEF RowsGrow
  <2>3. PICK q \in RequestRecord : q = [req[r] EXCEPT !.pc = "readMeta"]
    BY <1>1 DEF RequestRecord, RequestPC
  <2>4. Go(r, q) /\ q.kind = "upload" /\ q.pc = "readMeta" /\ q.cv = u
    BY <1>1, <1>2, <1>3, <1>5, <2>3 DEF CreateParseRun, RequestRecord
  <2>5. KnowsLatest(r, q)' /\ NamesCv(q)
    BY <1>1, <1>2, <1>3, <2>1, <2>4 DEF KnowsLatest, NamesCv, Go
  <2> QED
    BY <1>2, <1>3, <2>1, <2>2, <2>4, <2>5, LatestServes
<1> QED
  BY <1>4, <1>5

LEMMA AutoApplyNames ==
  ASSUME TypeInv, LatestInv, NEW r \in Request, DecideAutoApply(r)
  PROVE  LatestInv'
<1>1. /\ req[r] \in RequestRecord /\ Serves(req[r]) /\ KnowsLatest(r, req[r])
      /\ OneByOne => NamesCv(req[r])
      /\ req[r].kind = "autoApply" /\ req[r].pc = "readSection"
  BY DEF TypeInv, ProfileTypeOK, LatestInv, OneByOne, DecideAutoApply, ReadAll, At
<1>2. UNCHANGED <<row, upload, parseRun>> /\ NoHistory /\ r \in InFlight
  BY <1>1 DEF DecideAutoApply, NoProfile, profile, NoCv, cvs, InFlight
<1>3. RowsGrow /\ \A u \in Uploads : Done(u)' => Done(u)
  BY <1>2 DEF RowsGrow, Done, Parsed
<1> DEFINE d == upload[req[r].cv].draft
           written(new, todo) ==
             [req[r] EXCEPT !.row = new, !.todo = todo, !.pc = "upsert",
                !.list = [s \in Section |-> ListOf(d.entries[s])]]
<1>4. d \in DraftRecord
  BY <1>1, DraftOf DEF Serves
<1>5. ASSUME NEW new \in Row, NEW todo \in SUBSET Section, new.cv = req[r].row.cv,
             Go(r, written(new, todo))
      PROVE  LatestInv'
  <2>1. [s \in Section |-> ListOf(d.entries[s])] \in [Section -> List]
    BY ListTyping
  <2>2. written(new, todo) \in RequestRecord
    BY <1>1, <2>1 DEF RequestRecord, RequestPC
  <2>3. PICK q \in RequestRecord : q = written(new, todo)
    BY <2>2
  <2>4. q.kind = "autoApply" /\ q.pc = "upsert" /\ q.cv = req[r].cv /\ q.row = new
    BY <1>1, <2>3 DEF RequestRecord
  <2> HIDE DEF written
  <2>5. KnowsLatest(r, q)' /\ (OneByOne => NamesCv(q))
    BY <1>1, <1>2, <1>5, <2>3, <2>4 DEF KnowsLatest, NamesCv, Go, Done, Parsed
  <2> QED
    BY <1>1, <1>2, <1>3, <1>5, <2>3, <2>5, LatestServes
<1>6. /\ PivotRow(d, req[r].row) \in Row /\ PivotRow(d, req[r].row).cv = req[r].row.cv
      /\ KeepingRow(d, req[r].row) \in Row /\ KeepingRow(d, req[r].row).cv = req[r].row.cv
      /\ PivotTodo(d) \in SUBSET Section /\ KeepingTodo(d) \in SUBSET Section
  BY <1>1, <1>4 DEF PivotRow, KeepingRow, PivotTodo, KeepingTodo, DraftRecord, RequestRecord, Row
<1>7. \/ End(r)
      \/ Go(r, written(PivotRow(d, req[r].row), PivotTodo(d)))
      \/ Go(r, written(KeepingRow(d, req[r].row), KeepingTodo(d)))
  <2>1. CASE d.use = "pivot"
    BY <2>1 DEF DecideAutoApply
  <2>2. CASE d.use = "replace"
    BY <2>2 DEF DecideAutoApply
  <2>3. CASE d.use \notin {"pivot", "replace"}
    BY <2>3 DEF DecideAutoApply
  <2> QED
    BY <2>1, <2>2, <2>3
<1>8. CASE End(r)
  BY <1>1, <1>2, <1>8, LatestEnds DEF NoHistory
<1> HIDE DEF written, d
<1> QED
  BY <1>5, <1>6, <1>7, <1>8

LEMMA SelectionNames ==
  ASSUME TypeInv, LatestInv, NEW r \in Request, DecideSelection(r)
  PROVE  LatestInv'
<1>1. /\ req[r] \in RequestRecord /\ Serves(req[r]) /\ KnowsLatest(r, req[r])
      /\ OneByOne => NamesCv(req[r])
      /\ req[r].kind = "apply" /\ req[r].pc = "readSection"
  BY DEF TypeInv, ProfileTypeOK, LatestInv, OneByOne, DecideSelection, ReadAll, At
<1>2. UNCHANGED <<row, upload, parseRun>> /\ NoHistory /\ r \in InFlight
  BY <1>1 DEF DecideSelection, NoProfile, profile, NoCv, cvs, InFlight
<1>3. RowsGrow /\ \A u \in Uploads : Done(u)' => Done(u)
  BY <1>2 DEF RowsGrow, Done, Parsed
<1>4. CASE End(r)
  BY <1>1, <1>2, <1>4, LatestEnds DEF NoHistory
<1>5. CASE ~End(r)
  <2>1. TypeInv'
    BY SelectionKeeps
  <2> DEFINE d == upload[req[r].cv].draft
             p(ops) == [req[r] EXCEPT !.pc = "upsert", !.ops = ops, !.todo = Section,
                          !.row = AppliedRow(ops, d, @), !.list = AppliedLists(ops, @)]
  <2>2. PICK ops : Go(r, p(ops))
    BY <1>5 DEF DecideSelection
  <2>3. PICK q : q = p(ops)
    OBVIOUS
  <2>4. /\ q.kind = "apply" /\ q.pc = "upsert" /\ q.cv = req[r].cv
        /\ q.row = AppliedRow(ops, d, req[r].row)
    BY <1>1, <2>3 DEF RequestRecord
  <2> HIDE DEF p, d
  <2>5. Go(r, q) /\ q \in RequestRecord
    <3>1. Go(r, q)
      BY <2>2, <2>3
    <3>2. req'[r] = q
      BY <3>1 DEF Go, TypeInv, ProfileTypeOK
    <3> QED
      BY <2>1, <3>1, <3>2 DEF TypeInv, ProfileTypeOK
  <2>6. q.row.cv = req[r].row.cv
    BY <1>1, <2>4 DEF AppliedRow, RequestRecord, Row
  <2>7. KnowsLatest(r, q)' /\ (OneByOne => NamesCv(q))
    BY <1>1, <2>4, <2>6 DEF KnowsLatest, NamesCv
  <2> QED
    BY <1>1, <1>2, <1>3, <2>5, <2>7, LatestServes
<1> QED
  BY <1>4, <1>5

LEMMA CountsName ==
  ASSUME TypeInv, LatestInv, NEW r \in Request, UpdateParseRun(r) \/ CreateAudit(r)
  PROVE  LatestInv'
<1>1. /\ req[r] \in RequestRecord /\ Serves(req[r]) /\ KnowsLatest(r, req[r])
      /\ parseRun \in [Uploads -> RunRecord]
  BY DEF TypeInv, ProfileTypeOK, LatestInv
<1>2. UNCHANGED <<row, upload>> /\ NoHistory /\ r \in InFlight
  BY DEF UpdateParseRun, CreateAudit, NoProfile, profile, At, ReadAll, InFlight
<1>3. CASE UpdateParseRun(r)
  <2>1. PICK u \in Uploads : u = req[r].cv /\ Parsed(u)
    BY <1>1, <1>3 DEF UpdateParseRun, Serves, Parsed
  <2>2. PICK st \in {"partially_applied", "fully_applied"} :
          \E n : parseRun' = [parseRun EXCEPT ![u] = [status |-> st, count |-> n]]
    BY <1>3, <2>1 DEF UpdateParseRun
  <2>3. RowsGrow /\ \A v \in Uploads : Done(v)' => Done(v)
    BY <1>1, <1>2, <2>1, <2>2 DEF RowsGrow, Done, Parsed
  <2>4. PICK q \in RequestRecord : q = [req[r] EXCEPT !.pc = "audit"]
    BY <1>1 DEF RequestRecord, RequestPC
  <2>5. Go(r, q) /\ q.kind = "review" /\ q.pc = "audit" /\ req[r].kind = "review"
    BY <1>1, <1>3, <2>4 DEF UpdateParseRun, RequestRecord
  <2>6. KnowsLatest(r, q)' /\ NamesCv(q)
    BY <2>5 DEF KnowsLatest, NamesCv
  <2> QED
    BY <1>2, <2>3, <2>5, <2>6, LatestServes
<1>4. CASE CreateAudit(r)
  <2>1. req[r].kind # "upload" /\ UNCHANGED parseRun
    BY <1>1, <1>4 DEF CreateAudit, At, KnowsLatest
  <2> QED
    BY <1>2, <1>4, <2>1, LatestEnds DEF CreateAudit, NoHistory
<1> QED
  BY <1>3, <1>4

LEMMA FailuresName ==
  ASSUME TypeInv, LatestInv, ServerStops \/ \E r \in Request : RequestRaises(r)
  PROVE  LatestInv'
<1>1. failures' # 0 /\ UNCHANGED <<row, upload, parseRun>>
  BY DEF TypeInv, ProfileTypeOK, ServerStops, RequestRaises, NoProfile, profile, NoCv, cvs
<1>2. CASE \E r \in Request : RequestRaises(r)
  <2>1. PICK r \in Request : RequestRaises(r)
    BY <1>2
  <2> QED
    BY <1>1, <2>1, LatestEnds DEF RequestRaises
<1>3. CASE ServerStops
  <2>1. ASSUME NEW p \in Request PROVE KnowsLatest(p, req[p])'
    <3>1. CASE p \in InFlight
      <4>1. req'[p] = Blank("done")
        BY <1>3, <3>1 DEF ServerStops
      <4> QED
        BY <4>1 DEF KnowsLatest, Blank
    <3>2. CASE p \notin InFlight
      <4>1. req'[p] = req[p] /\ req[p].kind = "none"
        BY <1>3, <3>2 DEF ServerStops, InFlight, LatestInv, KnowsLatest
      <4>2. KnowsLatest(p, req[p])
        BY DEF LatestInv
      <4> QED
        BY <4>1, <4>2 DEF KnowsLatest
    <3> QED
      BY <3>1, <3>2
  <2>2. (\A u, v \in Uploads : u < v /\ Done(v) => Done(u))'
    BY <1>1 DEF LatestInv, Done
  <2> QED
    BY <1>1, <2>1, <2>2 DEF LatestInv
<1> QED
  BY <1>2, <1>3

LEMMA LatestStart == ProfileInit => LatestInv
<1> SUFFICES ASSUME ProfileInit PROVE LatestInv
  OBVIOUS
<1>1. \A r \in Request : req[r].pc = "waiting" /\ req[r].kind = "none"
  BY DEF ProfileInit, Blank
<1>2. \A u \in Uploads : ~Done(u)
  BY DEF ProfileInit, NoUpload, Done
<1>3. OneByOne
  BY <1>1, <1>2 DEF OneByOne, NamesCv, InFlight
<1>4. \A r \in Request : KnowsLatest(r, req[r])
  BY <1>1 DEF KnowsLatest
<1> QED
  BY <1>2, <1>3, <1>4 DEF LatestInv

LEMMA LatestStep == TypeInv /\ LatestInv /\ [ProfileNext]_profileVars => LatestInv'
<1> SUFFICES ASSUME TypeInv, LatestInv, [ProfileNext]_profileVars PROVE LatestInv'
  OBVIOUS
<1>1. ASSUME NEW r \in Request, Arrive(r) PROVE LatestInv'
  BY <1>1, EditsName, EntriesName, OthersName, UploadIsLatest DEF Arrive
<1>2. ASSUME NEW r \in Request, Serve(r) PROVE LatestInv'
  BY <1>2, ReadsName, LatestRunName, UpsertNames, ReplaceNames, RowsName, AutoApplyNames,
     SelectionNames, CountsName DEF Serve
<1>3. CASE UNCHANGED profileVars
  <2>1. \A r \in Request : KnowsLatest(r, req[r])'
    BY <1>3 DEF profileVars, LatestInv, KnowsLatest, Done, Parsed
  <2>2. OneByOne => OneByOne'
    BY <1>3 DEF profileVars, OneByOne, NamesCv, InFlight, Told, Uploading, Done, Parsed
  <2>3. (\A u, v \in Uploads : u < v /\ Done(v) => Done(u))'
    BY <1>3 DEF profileVars, LatestInv, Done
  <2> QED
    BY <1>3, <2>1, <2>2, <2>3 DEF profileVars, LatestInv
<1> QED
  BY <1>1, <1>2, <1>3, FailuresName DEF ProfileNext, AllDone

(* The latest CV is the one that counts: an upload applies its own parse    *)
(* run, however it overlaps with other requests, and as long as requests    *)
(* come one after the other and none fails the profile names the latest.    *)
THEOREM LatestTheorem == ProfileSpec => []LatestCvDecides
<1>1. TypeInv /\ LatestInv => LatestCvDecides
  <2> SUFFICES ASSUME TypeInv, LatestInv PROVE LatestCvDecides
    OBVIOUS
  <2>1. AutoApplyUsesOwnRun
    BY DEF LatestInv, KnowsLatest, AutoApplyUsesOwnRun
  <2>2. ASSUME Quiet, failures = 0, ~overlapped, NEW u \in Uploads, Done(u)
        PROVE  row.cv >= u /\ parseRun[u].status # "none"
    <3>1. \A r \in Request : req[r].pc \in {"waiting", "done"}
      BY <2>2 DEF Quiet, InFlight
    <3>2. ~Uploading(u)
      BY <3>1 DEF Uploading, LatestInv, KnowsLatest
    <3>3. Told(u)
      BY <2>2, <3>2 DEF LatestInv, OneByOne
    <3> QED
      BY <3>3 DEF Told, Parsed
  <2> QED
    BY <2>1, <2>2 DEF LatestCvDecides, LatestCvShown
<1> QED
  BY <1>1, TypeStart, TypeStep, LatestStart, LatestStep, PTL DEF ProfileSpec

-----------------------------------------------------------------------------
(***************************************************************************)
(* The skills and their evidence.  What a call holds, and the files, have  *)
(* their types whatever overlaps.                                          *)
(***************************************************************************)
NoWork == {Idle, [pc |-> "done"]}
DetailRow == [file : Call \cup {NoValue}, note : Note \cup {NoValue}, stored : BOOLEAN]
Work == [pc : {"list", "store", "read", "keep", "rename", "drop", "await"},
         list : Seq(Name \cup Call), new : Name \cup {NoValue}, old : Name \cup {NoValue},
         note : Note \cup {NoValue}, kind : {"create", "patch", "delete", "evidence"}]

\* Which names a call holds is told by its kind; its list is one of names until
\* it has been written, and then the file it has read, if any.
Holds(r) ==
    /\ r \in Work
    /\ r.kind # "delete" => r.new \in Name
    /\ r.kind \in {"patch", "delete"} => r.old \in Name
    /\ r.pc = "list" => r.list \in Seq(Name)
    /\ r.pc = "keep" => r.list \in Seq(Call)
    /\ r.pc \in {"store", "read", "keep", "rename", "await"} => r.new \in Name
    /\ r.pc \in {"rename", "drop"} => r.old \in Name
    /\ r.pc = "await" <=> r.kind = "evidence"

SkillTypeOK ==
    /\ skills \in Seq(Name)
    /\ detail \in [Key -> DetailRow]
    /\ proofs \in [Key -> Call \cup {NoValue}]
    /\ orderly \in BOOLEAN
    /\ DOMAIN call = Call
    /\ \A c \in Call : call[c] \in NoWork \/ Holds(call[c])

(***************************************************************************)
(* With one call at a time, the rows agree with the list and with the      *)
(* files but for the names the call is between two writes of.              *)
(***************************************************************************)
SettledBut(X) ==
    \A k \in Key \ X :
        /\ detail[k].file = proofs[k]
        /\ detail[k].stored => k \in Keys(skills)
        /\ ~detail[k].stored => detail[k].file = NoValue

\* What is between: the list a call is about to write,
ListReady(r) ==
    /\ SettledBut({})
    /\ r.kind \in {"create", "patch"} => KeyOf[r.new] \in Keys(r.list)
    /\ r.kind = "create" => Keys(skills) \subseteq Keys(r.list)
    /\ r.kind \in {"patch", "delete"} => Keys(skills) \ {KeyOf[r.old]} \subseteq Keys(r.list)
    /\ r.kind = "patch" /\ KeyOf[r.old] # KeyOf[r.new] => KeyOf[r.new] \notin Keys(skills)

\* the row it has yet to move,
RowToMove(r) ==
    LET was == KeyOf[r.old]
        to == KeyOf[r.new]
    IN  IF was = to THEN SettledBut({})
        ELSE /\ SettledBut({was, to})
             /\ ~detail[to].stored /\ detail[to].file = NoValue
             /\ proofs[to] = detail[was].file /\ proofs[was] = NoValue
             /\ ~detail[was].stored => detail[was].file = NoValue

\* and the file it has read.
FileRead(r) == r.list = <<>> \/ r.list[1] = detail[KeyOf[r.new]].file

Between(r) ==
    /\ r.pc = "list" => ListReady(r)
    /\ r.pc = "rename" => RowToMove(r)
    /\ r.pc \in {"store", "read", "keep", "await"} => SettledBut({})
    /\ r.pc \in {"store", "read", "keep", "await", "rename"} => KeyOf[r.new] \in Keys(skills)
    /\ r.pc = "keep" => FileRead(r)
    /\ r.pc = "drop" => SettledBut({KeyOf[r.old]}) /\ proofs[KeyOf[r.old]] = NoValue

OneAtATime == \A c, d \in Running : c = d

EvidenceInv ==
    orderly => /\ OneAtATime
               /\ Running = {} => SettledBut({})
               /\ \A c \in Running : Between(call[c])

LEMMA NamesOrFiles == \A s \in Seq(Name) : s \in Seq(Name \cup Call)
  OBVIOUS

LEMMA KeyOfName == \A n \in Name : KeyOf[n] \in Key
  BY DEF Key

LEMMA KeysAreKeys == \A s \in Seq(Name) : Keys(s) \subseteq Key
  BY KeyOfName DEF Keys

LEMMA AppendedKeys ==
  ASSUME NEW s \in Seq(Name), NEW n \in Name
  PROVE  /\ Append(s, n) \in Seq(Name)
         /\ Keys(s) \subseteq Keys(Append(s, n)) /\ KeyOf[n] \in Keys(Append(s, n))
<1>1. /\ Append(s, n) \in Seq(Name) /\ Len(Append(s, n)) = Len(s) + 1
      /\ \A i \in 1..Len(s) : Append(s, n)[i] = s[i]
      /\ Append(s, n)[Len(s) + 1] = n
  BY AppendProperties
<1>2. Len(s) \in Nat
  OBVIOUS
<1> QED
  BY <1>1, <1>2 DEF Keys

LEMMA ReplacedKeys ==
  ASSUME NEW s \in Seq(Name), NEW n \in Name, NEW i \in 1..Len(s)
  PROVE  /\ [s EXCEPT ![i] = n] \in Seq(Name)
         /\ Keys(s) \ {KeyOf[s[i]]} \subseteq Keys([s EXCEPT ![i] = n])
         /\ KeyOf[n] \in Keys([s EXCEPT ![i] = n])
<1>1. /\ [s EXCEPT ![i] = n] \in Seq(Name) /\ Len([s EXCEPT ![i] = n]) = Len(s)
      /\ \A j \in 1..Len(s) : [s EXCEPT ![i] = n][j] = IF j = i THEN n ELSE s[j]
  BY ExceptSeq
<1> QED
  BY <1>1 DEF Keys

LEMMA RemovedKeys ==
  ASSUME NEW s \in Seq(Name), NEW i \in 1..Len(s)
  PROVE  /\ RemoveAt(s, i) \in Seq(Name)
         /\ Keys(s) \ {KeyOf[s[i]]} \subseteq Keys(RemoveAt(s, i))
<1> DEFINE before == SubSeq(s, 1, i - 1)
           after == SubSeq(s, i + 1, Len(s))
<1>1. Len(s) \in Nat /\ i \in Int
  OBVIOUS
<1>2. /\ before \in Seq(Name) /\ Len(before) = i - 1
      /\ \A j \in 1..(i - 1) : before[j] = s[j]
  <2>1. \A j \in 1..(i - 1) : s[j] \in Name
    OBVIOUS
  <2>2. /\ before \in Seq(Name) /\ Len(before) = IF 1 <= i - 1 THEN i - 1 - 1 + 1 ELSE 0
        /\ \A j \in 1..(i - 1 - 1 + 1) : before[j] = s[1 + j - 1]
    BY <2>1, <1>1, SubSeqProperties
  <2> QED
    BY <2>2
<1>3. /\ after \in Seq(Name) /\ Len(after) = Len(s) - i
      /\ \A j \in 1..(Len(s) - i) : after[j] = s[i + j]
  <2>1. \A j \in (i + 1)..Len(s) : s[j] \in Name
    OBVIOUS
  <2>2. /\ after \in Seq(Name)
        /\ Len(after) = IF i + 1 <= Len(s) THEN Len(s) - (i + 1) + 1 ELSE 0
        /\ \A j \in 1..(Len(s) - (i + 1) + 1) : after[j] = s[i + 1 + j - 1]
    BY <2>1, <1>1, SubSeqProperties
  <2> QED
    BY <2>2, <1>1
<1> HIDE DEF before, after
<1>4. RemoveAt(s, i) = before \o after
  BY DEF RemoveAt, before, after
<1>5. /\ before \o after \in Seq(Name) /\ Len(before \o after) = Len(s) - 1
      /\ \A j \in 1..(Len(s) - 1) : (before \o after)[j] =
             IF j <= i - 1 THEN before[j] ELSE after[j - (i - 1)]
  <2>1. PICK p \in Seq(Name), q \in Seq(Name) : p = before /\ q = after
    BY <1>2, <1>3
  <2>2. /\ p \o q \in Seq(Name) /\ Len(p \o q) = Len(p) + Len(q)
        /\ \A j \in 1..(Len(p) + Len(q)) : (p \o q)[j] = IF j <= Len(p) THEN p[j] ELSE q[j - Len(p)]
    BY ConcatProperties
  <2>3. Len(p) = i - 1 /\ Len(q) = Len(s) - i
    BY <1>2, <1>3, <2>1, Zenon
  <2>4. Len(p) + Len(q) = Len(s) - 1
    <3>1. PICK n \in Nat : n = Len(s)
      BY <1>1
    <3>2. Len(p) + Len(q) = (i - 1) + (n - i)
      BY <2>3, <3>1
    <3> QED
      BY <1>1, <3>1, <3>2
  <2>5. /\ Len(p \o q) = Len(s) - 1
        /\ \A j \in 1..(Len(s) - 1) : (p \o q)[j] = IF j <= i - 1 THEN p[j] ELSE q[j - (i - 1)]
    BY <2>2, <2>3, <2>4, Zenon
  <2> QED
    BY <2>1, <2>2, <2>5, Zenon
<1>6. ASSUME NEW j \in 1..Len(s), j # i
      PROVE  KeyOf[s[j]] \in Keys(before \o after)
  <2>1. CASE j < i
    <3>1. j \in 1..(Len(s) - 1) /\ j <= i - 1 /\ (before \o after)[j] = s[j]
      BY <2>1, <1>1, <1>2, <1>5
    <3> QED
      BY <3>1, <1>5 DEF Keys
  <2>2. CASE j > i
    <3>1. /\ j - 1 \in 1..(Len(s) - 1) /\ ~(j - 1 <= i - 1)
          /\ j - i \in 1..(Len(s) - i) /\ (j - 1) - (i - 1) = j - i /\ i + (j - i) = j
      BY <2>2, <1>1
    <3>2. (before \o after)[j - 1] = s[j]
      BY <3>1, <1>3, <1>5
    <3> QED
      BY <3>1, <3>2, <1>5 DEF Keys
  <2> QED
    BY <2>1, <2>2, <1>1, <1>6
<1>7. \A k \in Keys(s) \ {KeyOf[s[i]]} : k \in Keys(before \o after)
  <2> TAKE k \in Keys(s) \ {KeyOf[s[i]]}
  <2>1. PICK j \in 1..Len(s) : k = KeyOf[s[j]]
    BY DEF Keys
  <2> QED
    BY <2>1, <1>6
<1> QED
  BY <1>4, <1>5, <1>7

\* A step of one call leaves the others alone.
LEMMA CallsKeep ==
  ASSUME NEW c \in Call, NEW r, DOMAIN call = Call,
         \A b \in Call : call[b] \in NoWork \/ Holds(call[b]),
         r \in NoWork \/ Holds(r), Moves(c, r)
  PROVE  /\ DOMAIN call' = Call
         /\ \A b \in Call : (call[b] \in NoWork \/ Holds(call[b]))'
         /\ call'[c] = r /\ \A b \in Call : b # c => call'[b] = call[b]
<1>1. /\ DOMAIN call' = Call /\ call'[c] = r
      /\ \A b \in Call : b # c => call'[b] = call[b]
  BY DEF Moves
<1>2. \A b \in Call : call'[b] \in NoWork \/ Holds(call'[b])
  BY <1>1
<1> QED
  BY <1>1, <1>2 DEF Holds, Work, NoWork, Idle

LEMMA EntersTyped ==
  ASSUME NEW c \in Call, SkillTypeOK,
         CreateSkill(c) \/ PatchSkill(c) \/ DeleteSkill(c) \/ UploadEvidence(c)
  PROVE  SkillTypeOK' /\ \A b \in Call : b # c => call'[b] = call[b]
<1>1. SUFFICES ASSUME NEW r, Holds(r), Moves(c, r), SameRows, orderly' \in BOOLEAN
               PROVE  SkillTypeOK' /\ \A b \in Call : b # c => call'[b] = call[b]
  <2>1. orderly' \in BOOLEAN
    BY DEF SkillTypeOK, CreateSkill, PatchSkill, DeleteSkill, UploadEvidence, Enter
  <2>2. CASE CreateSkill(c)
    <3>1. PICK n \in Name, note \in Note \cup {NoValue} :
             Moves(c, [pc |-> "list", list |-> Append(skills, n), new |-> n,
                       old |-> NoValue, note |-> note, kind |-> "create"])
      BY <2>2 DEF CreateSkill
    <3>2. PICK l : l = Append(skills, n)
      OBVIOUS
    <3>3. l \in Seq(Name) /\ l \in Seq(Name \cup Call)
      BY <3>2, AppendedKeys, NamesOrFiles DEF SkillTypeOK
    <3>4. PICK r : r = [pc |-> "list", list |-> l, new |-> n, old |-> NoValue,
                        note |-> note, kind |-> "create"]
      OBVIOUS
    <3>5. Holds(r)
      BY <3>3, <3>4 DEF Holds, Work
    <3> QED
      BY <3>1, <3>2, <3>4, <3>5, <2>1, <2>2, <1>1 DEF CreateSkill
  <2>3. CASE PatchSkill(c)
    <3>1. PICK i \in 1..Len(skills), n \in Name, note \in Note \cup {NoValue} :
             Moves(c, [pc |-> "list", list |-> [skills EXCEPT ![i] = n], new |-> n,
                       old |-> skills[i], note |-> note, kind |-> "patch"])
      BY <2>3 DEF PatchSkill
    <3>2. PICK l, o : l = [skills EXCEPT ![i] = n] /\ o = skills[i]
      OBVIOUS
    <3>3. l \in Seq(Name) /\ l \in Seq(Name \cup Call) /\ o \in Name
      BY <3>2, ReplacedKeys, NamesOrFiles DEF SkillTypeOK
    <3>4. PICK r : r = [pc |-> "list", list |-> l, new |-> n, old |-> o,
                        note |-> note, kind |-> "patch"]
      OBVIOUS
    <3>5. Holds(r)
      BY <3>3, <3>4 DEF Holds, Work
    <3> QED
      BY <3>1, <3>2, <3>4, <3>5, <2>1, <2>3, <1>1 DEF PatchSkill
  <2>4. CASE DeleteSkill(c)
    <3>1. PICK i \in 1..Len(skills) :
             Moves(c, [pc |-> "list", list |-> RemoveAt(skills, i), new |-> NoValue,
                       old |-> skills[i], note |-> NoValue, kind |-> "delete"])
      BY <2>4 DEF DeleteSkill
    <3>2. PICK l, o : l = RemoveAt(skills, i) /\ o = skills[i]
      OBVIOUS
    <3>3. l \in Seq(Name) /\ l \in Seq(Name \cup Call) /\ o \in Name
      BY <3>2, RemovedKeys, NamesOrFiles DEF SkillTypeOK
    <3>4. PICK r : r = [pc |-> "list", list |-> l, new |-> NoValue, old |-> o,
                        note |-> NoValue, kind |-> "delete"]
      OBVIOUS
    <3>5. Holds(r)
      BY <3>3, <3>4 DEF Holds, Work
    <3> QED
      BY <3>1, <3>2, <3>4, <3>5, <2>1, <2>4, <1>1 DEF DeleteSkill
  <2>5. CASE UploadEvidence(c)
    <3>1. PICK i \in 1..Len(skills) :
             Moves(c, [pc |-> "await", list |-> <<>>, new |-> skills[i], old |-> NoValue,
                       note |-> NoValue, kind |-> "evidence"])
      BY <2>5 DEF UploadEvidence
    <3>2. PICK n : n = skills[i]
      OBVIOUS
    <3>3. n \in Name /\ <<>> \in Seq(Name \cup Call)
      BY <3>2 DEF SkillTypeOK
    <3>4. PICK r : r = [pc |-> "await", list |-> <<>>, new |-> n, old |-> NoValue,
                        note |-> NoValue, kind |-> "evidence"]
      OBVIOUS
    <3>5. Holds(r)
      BY <3>3, <3>4 DEF Holds, Work
    <3> QED
      BY <3>1, <3>2, <3>4, <3>5, <2>1, <2>5, <1>1 DEF UploadEvidence
  <2> QED
    BY <2>2, <2>3, <2>4, <2>5
<1>2. /\ DOMAIN call' = Call
      /\ \A b \in Call : (call[b] \in NoWork \/ Holds(call[b]))'
      /\ \A b \in Call : b # c => call'[b] = call[b]
  BY <1>1, CallsKeep DEF SkillTypeOK
<1> QED
  BY <1>1, <1>2 DEF SkillTypeOK, SameRows

\* An answer ends a call.
LEMMA AnswersTyped ==
  ASSUME NEW c \in Call, SkillTypeOK, Answered(c)
  PROVE  /\ DOMAIN call' = Call
         /\ \A b \in Call : (call[b] \in NoWork \/ Holds(call[b]))'
         /\ call'[c] = [pc |-> "done"] /\ \A b \in Call : b # c => call'[b] = call[b]
<1>1. PICK r : r = [pc |-> "done"]
  OBVIOUS
<1>2. r \in NoWork
  BY <1>1 DEF NoWork
<1> QED
  BY <1>1, <1>2, CallsKeep DEF SkillTypeOK, Answered

\* A row that is stored keeps its shape.
LEMMA UpsertTyped ==
  ASSUME NEW k \in Key, NEW note \in Note \cup {NoValue}, NEW file \in Call \cup {NoValue},
         detail \in [Key -> DetailRow], UpsertDetail(k, note, file)
  PROVE  /\ detail' \in [Key -> DetailRow]
         /\ detail'[k].stored
         /\ detail'[k].file = IF file = NoValue THEN detail[k].file ELSE file
         /\ \A x \in Key : x # k => detail'[x] = detail[x]
<1>1. PICK d : d = [stored |-> TRUE, note |-> note,
                        file |-> IF file = NoValue THEN detail[k].file ELSE file]
  OBVIOUS
<1>2. detail[k].file \in Call \cup {NoValue}
  BY DEF DetailRow
<1>3. d \in DetailRow /\ d.stored /\ d.file = IF file = NoValue THEN detail[k].file ELSE file
  BY <1>1, <1>2 DEF DetailRow
<1>4. detail' = [detail EXCEPT ![k] = d]
  BY <1>1 DEF UpsertDetail
<1> QED
  BY <1>3, <1>4

\* The list a call writes, and where the call goes from there.
LEMMA WriteTyped ==
  ASSUME NEW c \in Call, SkillTypeOK, WriteList(c)
  PROVE  /\ SkillTypeOK' /\ \A b \in Call : b # c => call'[b] = call[b]
         /\ call'[c] = [call[c] EXCEPT !.pc = call'[c].pc]
         /\ call'[c].pc = CASE call[c].kind = "create" -> "store"
                            [] call[c].kind = "patch" ->
                                 IF call[c].old = call[c].new THEN "read" ELSE "rename"
                            [] OTHER -> "drop"
<1>1. PICK r : r = call[c]
  OBVIOUS
<1>2. Holds(r) /\ r.pc = "list" /\ r \in Work /\ r.kind \in {"create", "patch", "delete"}
  BY <1>1 DEF SkillTypeOK, WriteList, NoWork, Idle, Holds, Work
<1>3. PICK pc : pc = CASE r.kind = "create" -> "store"
                       [] r.kind = "patch" -> IF r.old = r.new THEN "read" ELSE "rename"
                       [] OTHER -> "drop"
  OBVIOUS
<1>4. PICK q : q = [r EXCEPT !.pc = pc]
  OBVIOUS
<1>5. Moves(c, q)
  BY <1>1, <1>3, <1>4 DEF WriteList
<1>6. pc \in {"store", "read", "rename", "drop"} /\ q \in Work
      /\ q.pc = pc /\ q.list = r.list /\ q.new = r.new /\ q.old = r.old /\ q.kind = r.kind
  BY <1>2, <1>3, <1>4 DEF Work
<1>7. Holds(q)
  BY <1>2, <1>3, <1>6 DEF Holds
<1>8. skills' \in Seq(Name) /\ detail' = detail /\ orderly' = orderly
  BY <1>1, <1>2 DEF WriteList, Holds
<1>9. proofs' \in [Key -> Call \cup {NoValue}]
  <2>1. proofs' = AfterList(r)
    BY <1>1 DEF WriteList
  <2>2. CASE r.kind = "create"
    BY <2>1, <2>2 DEF AfterList, SkillTypeOK
  <2>3. CASE r.kind = "patch"
    BY <2>1, <2>3, <1>2, KeyOfName DEF AfterList, SkillTypeOK, Holds
  <2>4. CASE r.kind = "delete"
    BY <2>1, <2>4 DEF AfterList, SkillTypeOK
  <2> QED
    BY <2>2, <2>3, <2>4, <1>2
<1>10. /\ DOMAIN call' = Call
       /\ \A b \in Call : (call[b] \in NoWork \/ Holds(call[b]))'
       /\ call'[c] = q /\ \A b \in Call : b # c => call'[b] = call[b]
  BY <1>5, <1>7, CallsKeep DEF SkillTypeOK
<1>11. SkillTypeOK'
  BY <1>8, <1>9, <1>10 DEF SkillTypeOK, DetailRow, Key
<1> QED
  BY <1>1, <1>3, <1>4, <1>6, <1>10, <1>11

LEMMA RenameTyped ==
  ASSUME NEW c \in Call, SkillTypeOK, RenameDetail(c)
  PROVE  /\ SkillTypeOK' /\ \A b \in Call : b # c => call'[b] = call[b]
         /\ call[c] \in Work /\ call[c].new \in Name /\ call[c].old \in Name
         /\ call'[c].pc = "done" \/ (/\ call'[c].pc = "read" /\ call'[c].new = call[c].new)
<1>1. PICK r : r = call[c]
  OBVIOUS
<1>2. Holds(r) /\ r.pc = "rename" /\ r \in Work /\ r.new \in Name /\ r.old \in Name
  BY <1>1 DEF SkillTypeOK, RenameDetail, NoWork, Idle, Holds
<1>3. detail' \in [Key -> DetailRow]
  <2>1. NoDetail \in DetailRow
    BY DEF NoDetail, DetailRow
  <2> QED
    BY <2>1, <1>1, <1>2, KeyOfName DEF RenameDetail, SkillTypeOK
<1>4. SkillTypeOK' /\ (\A b \in Call : b # c => call'[b] = call[b])
      /\ (call'[c].pc = "done" \/ (call'[c].pc = "read" /\ call'[c].new = r.new))
  <2>1. CASE Answered(c)
    <3>1. /\ DOMAIN call' = Call
          /\ \A b \in Call : (call[b] \in NoWork \/ Holds(call[b]))'
          /\ call'[c] = [pc |-> "done"] /\ \A b \in Call : b # c => call'[b] = call[b]
      BY <2>1, AnswersTyped
    <3> QED
      BY <3>1, <1>3 DEF SkillTypeOK, RenameDetail, DetailRow, Key
  <2>2. CASE Moves(c, [r EXCEPT !.pc = "read"])
    <3>1. PICK q : q = [r EXCEPT !.pc = "read"]
      OBVIOUS
    <3>2. q \in Work /\ q.pc = "read" /\ q.new = r.new /\ q.kind = r.kind /\ q.old = r.old
      BY <3>1, <1>2 DEF Work
    <3>3. Holds(q)
      BY <3>2, <1>2 DEF Holds
    <3>4. /\ DOMAIN call' = Call
          /\ \A b \in Call : (call[b] \in NoWork \/ Holds(call[b]))'
          /\ call'[c] = q /\ \A b \in Call : b # c => call'[b] = call[b]
      BY <2>2, <3>1, <3>3, CallsKeep DEF SkillTypeOK
    <3> QED
      BY <3>2, <3>4, <1>3 DEF SkillTypeOK, RenameDetail, DetailRow, Key
  <2> QED
    BY <2>1, <2>2, <1>1 DEF RenameDetail
<1> QED
  BY <1>1, <1>2, <1>4

LEMMA ReadTyped ==
  ASSUME NEW c \in Call, SkillTypeOK, ReadDetail(c)
  PROVE  /\ SkillTypeOK' /\ \A b \in Call : b # c => call'[b] = call[b]
         /\ call'[c].pc = "keep" /\ call'[c].new = call[c].new
         /\ call'[c].list = <<>> \/ call'[c].list[1] = detail[KeyOf[call[c].new]].file
<1>1. PICK r, d : r = call[c] /\ d = detail[KeyOf[r.new]]
  OBVIOUS
<1>2. Holds(r) /\ r.pc = "read" /\ r \in Work /\ r.new \in Name
  BY <1>1 DEF SkillTypeOK, ReadDetail, NoWork, Idle, Holds
<1>3. d.file \in Call \cup {NoValue} /\ d.note \in Note \cup {NoValue}
  BY <1>1, <1>2, KeyOfName DEF SkillTypeOK, DetailRow
<1>4. PICK l, n : /\ l = IF d.file = NoValue THEN <<>> ELSE <<d.file>>
                  /\ n = IF r.note = NoValue THEN d.note ELSE r.note
  OBVIOUS
<1>5. l \in Seq(Name \cup Call) /\ l \in Seq(Call) /\ (l = <<>> \/ l[1] = d.file)
  <2>1. CASE d.file = NoValue
    BY <2>1, <1>4
  <2>2. CASE d.file # NoValue
    <3>1. PICK f : f = d.file
      OBVIOUS
    <3>2. l = <<f>> /\ f \in Call
      BY <2>2, <3>1, <1>3, <1>4
    <3> QED
      BY <3>1, <3>2
  <2> QED
    BY <2>1, <2>2
<1>6. PICK q : q = [r EXCEPT !.pc = "keep", !.note = n, !.list = l]
  OBVIOUS
<1>7. n \in Note \cup {NoValue}
  BY <1>2, <1>3, <1>4 DEF Work
<1>8. q \in Work /\ q.pc = "keep" /\ q.new = r.new /\ q.kind = r.kind /\ q.old = r.old
      /\ q.list = l
  BY <1>2, <1>5, <1>6, <1>7 DEF Work
<1>9. Holds(q)
  BY <1>2, <1>5, <1>8 DEF Holds
<1>10. Moves(c, q)
  BY <1>1, <1>2, <1>4, <1>6 DEF ReadDetail, Work
<1>11. /\ DOMAIN call' = Call
       /\ \A b \in Call : (call[b] \in NoWork \/ Holds(call[b]))'
       /\ call'[c] = q /\ \A b \in Call : b # c => call'[b] = call[b]
  BY <1>9, <1>10, CallsKeep DEF SkillTypeOK
<1> QED
  BY <1>1, <1>5, <1>8, <1>11 DEF SkillTypeOK, ReadDetail, DetailRow, Key

\* A row is stored, with a file or without.
LEMMA StoreTyped ==
  ASSUME NEW c \in Call, SkillTypeOK, StoreDetail(c) \/ StoreEvidence(c) \/ DropDetail(c)
  PROVE  /\ SkillTypeOK' /\ \A b \in Call : b # c => call'[b] = call[b]
         /\ call'[c].pc = "done"
<1>1. PICK r : r = call[c]
  OBVIOUS
<1>2. Holds(r) /\ r \in Work /\ r.pc \in {"store", "keep", "await", "drop"}
  BY <1>1 DEF SkillTypeOK, StoreDetail, StoreEvidence, DropDetail, NoWork, Idle, Holds
<1>3. /\ DOMAIN call' = Call
      /\ \A b \in Call : (call[b] \in NoWork \/ Holds(call[b]))'
      /\ call'[c] = [pc |-> "done"] /\ \A b \in Call : b # c => call'[b] = call[b]
  BY AnswersTyped DEF StoreDetail, StoreEvidence, DropDetail
<1>4. detail' \in [Key -> DetailRow] /\ proofs' \in [Key -> Call \cup {NoValue}]
      /\ skills' = skills /\ orderly' = orderly
  <2>1. CASE StoreDetail(c)
    <3>1. r.new \in Name /\ r.note \in Note \cup {NoValue} /\ r.pc \in {"store", "keep"}
      BY <2>1, <1>1, <1>2 DEF StoreDetail, Holds, Work
    <3>2. PICK file : file = IF r.pc = "store" \/ r.list = <<>> THEN NoValue ELSE r.list[1]
      OBVIOUS
    <3>3. file \in Call \cup {NoValue}
      BY <3>1, <3>2, <1>2 DEF Holds
    <3>4. UpsertDetail(KeyOf[r.new], r.note, file)
      BY <2>1, <1>1, <3>2 DEF StoreDetail
    <3>5. detail' \in [Key -> DetailRow]
      BY <3>1, <3>3, <3>4, KeyOfName, UpsertTyped DEF SkillTypeOK
    <3> QED
      BY <2>1, <3>5 DEF StoreDetail, SkillTypeOK
  <2>2. CASE StoreEvidence(c)
    <3>1. r.pc = "await" /\ r.new \in Name
      BY <2>2, <1>1, <1>2 DEF StoreEvidence, Holds
    <3>2. PICK k, note : k = KeyOf[r.new] /\ note = detail[k].note
      OBVIOUS
    <3>3. k \in Key /\ note \in Note \cup {NoValue}
      BY <3>1, <3>2, KeyOfName DEF SkillTypeOK, DetailRow
    <3>4. UpsertDetail(k, note, c) /\ proofs' = [proofs EXCEPT ![k] = c]
      BY <2>2, <1>1, <3>2 DEF StoreEvidence
    <3>5. detail' \in [Key -> DetailRow]
      BY <3>3, <3>4, UpsertTyped DEF SkillTypeOK
    <3> QED
      BY <2>2, <3>4, <3>5 DEF StoreEvidence, SkillTypeOK
  <2>3. CASE DropDetail(c)
    <3>1. NoDetail \in DetailRow
      BY DEF NoDetail, DetailRow
    <3> QED
      BY <2>3, <3>1 DEF DropDetail, SkillTypeOK
  <2> QED
    BY <2>1, <2>2, <2>3
<1> QED
  BY <1>3, <1>4 DEF SkillTypeOK, DetailRow, Key

LEMMA ReplaceTyped ==
  ASSUME NEW c \in Call, SkillTypeOK, ReplaceSkills(c)
  PROVE  SkillTypeOK'
<1>1. PICK n \in Name : skills' = <<n>>
  BY DEF ReplaceSkills
<1>2. skills' \in Seq(Name)
  BY <1>1
<1>3. DOMAIN call' = Call /\ \A b \in Call : (call[b] \in NoWork \/ Holds(call[b]))'
  BY AnswersTyped DEF ReplaceSkills
<1> QED
  BY <1>2, <1>3 DEF SkillTypeOK, ReplaceSkills, DetailRow, Key

LEMMA SkillTypeStep == SkillTypeOK /\ [SkillNext]_skillVars => SkillTypeOK'
<1> SUFFICES ASSUME SkillTypeOK, [SkillNext]_skillVars
             PROVE  SkillTypeOK'
  OBVIOUS
<1>1. CASE UNCHANGED skillVars
  BY <1>1 DEF SkillTypeOK, skillVars, Holds, Work, NoWork, Idle, DetailRow, Key
<1>2. CASE SkillNext
  <2>1. PICK c \in Call :
          \/ CreateSkill(c) \/ PatchSkill(c) \/ DeleteSkill(c) \/ UploadEvidence(c)
          \/ ReplaceSkills(c)
          \/ WriteList(c) \/ RenameDetail(c) \/ ReadDetail(c) \/ StoreDetail(c)
          \/ StoreEvidence(c) \/ DropDetail(c)
    BY <1>2 DEF SkillNext
  <2> QED
    BY <2>1, EntersTyped, ReplaceTyped, WriteTyped, RenameTyped, ReadTyped, StoreTyped
<1> QED
  BY <1>1, <1>2

LEMMA SkillTypeStart == SkillInit => SkillTypeOK
<1> SUFFICES ASSUME SkillInit PROVE SkillTypeOK
  OBVIOUS
<1>1. NoDetail \in DetailRow
  BY DEF NoDetail, DetailRow
<1>2. \A c \in Call : call[c] \in NoWork
  BY DEF SkillInit, NoWork
<1> QED
  BY <1>1, <1>2 DEF SkillInit, SkillTypeOK

\* Rows that stay agree as they did.
LEMMA SameSettled ==
  ASSUME NEW X, SettledBut(X), UNCHANGED <<skills, detail, proofs>>
  PROVE  SettledBut(X)'
  BY DEF SettledBut, Keys, Key

\* With one call at a time, what the call leaves is all there is to show.
LEMMA LoneStep ==
  ASSUME NEW c \in Call, Running \subseteq {c}, \A b \in Call : b # c => call'[b] = call[b],
         IF call'[c].pc \in {"idle", "done"} THEN SettledBut({})' ELSE Between(call[c])'
  PROVE  EvidenceInv'
<1>1. Running' = {b \in Call : call'[b].pc \notin {"idle", "done"}}
  BY DEF Running
<1>2. Running' \subseteq {c}
  BY <1>1 DEF Running
<1>3. OneAtATime'
  BY <1>2 DEF OneAtATime
<1>4. CASE call'[c].pc \in {"idle", "done"}
  <2>1. Running' = {}
    BY <1>1, <1>2, <1>4
  <2> QED
    BY <2>1, <1>3, <1>4 DEF EvidenceInv
<1>5. CASE call'[c].pc \notin {"idle", "done"}
  <2>1. c \in Running'
    BY <1>1, <1>5
  <2>2. \A b \in Running' : Between(call[b])'
    BY <1>2, <1>5
  <2> QED
    BY <2>1, <2>2, <1>3 DEF EvidenceInv
<1> QED
  BY <1>4, <1>5

\* A call that enters holds a list that keeps the names of the others.
LEMMA EntersSettled ==
  ASSUME NEW c \in Call, SkillTypeOK, EvidenceInv,
         CreateSkill(c) \/ PatchSkill(c) \/ DeleteSkill(c) \/ UploadEvidence(c)
  PROVE  EvidenceInv'
<1> SUFFICES ASSUME orderly' PROVE EvidenceInv'
  BY DEF EvidenceInv
<1>1. orderly /\ Running = {} /\ UNCHANGED <<skills, detail, proofs>> /\ call[c] = Idle
  BY DEF CreateSkill, PatchSkill, DeleteSkill, UploadEvidence, Enter, SameRows
<1>2. SettledBut({}) /\ SettledBut({})'
  BY <1>1, SameSettled DEF EvidenceInv
<1>3. SkillTypeOK' /\ \A b \in Call : b # c => call'[b] = call[b]
  BY EntersTyped
<1>4. skills \in Seq(Name) /\ Keys(skills)' = Keys(skills)
  BY <1>1 DEF SkillTypeOK, Keys
<1>5. Between(call[c])' /\ call'[c].pc \notin {"idle", "done"}
  <2>1. CASE CreateSkill(c)
    <3>1. PICK n \in Name, note \in Note \cup {NoValue} :
             Moves(c, [pc |-> "list", list |-> Append(skills, n), new |-> n,
                       old |-> NoValue, note |-> note, kind |-> "create"])
      BY <2>1 DEF CreateSkill
    <3>2. call'[c] = [pc |-> "list", list |-> Append(skills, n), new |-> n,
                      old |-> NoValue, note |-> note, kind |-> "create"]
      BY <3>1 DEF Moves, SkillTypeOK
    <3>3. Keys(skills) \subseteq Keys(call'[c].list) /\ KeyOf[n] \in Keys(call'[c].list)
      BY <3>2, <1>4, AppendedKeys
    <3>4. ListReady(call[c])'
      BY <3>2, <3>3, <1>2, <1>4 DEF ListReady
    <3> QED
      BY <3>2, <3>4 DEF Between
  <2>2. CASE PatchSkill(c)
    <3>1. PICK i \in 1..Len(skills), n \in Name, note \in Note \cup {NoValue} :
             /\ \A j \in 1..Len(skills) : j # i => KeyOf[skills[j]] # KeyOf[n]
             /\ Moves(c, [pc |-> "list", list |-> [skills EXCEPT ![i] = n], new |-> n,
                          old |-> skills[i], note |-> note, kind |-> "patch"])
      BY <2>2 DEF PatchSkill
    <3>2. call'[c] = [pc |-> "list", list |-> [skills EXCEPT ![i] = n], new |-> n,
                      old |-> skills[i], note |-> note, kind |-> "patch"]
      BY <3>1 DEF Moves, SkillTypeOK
    <3>3. Keys(skills) \ {KeyOf[skills[i]]} \subseteq Keys(call'[c].list)
          /\ KeyOf[n] \in Keys(call'[c].list)
      <4>1. call'[c].list = [skills EXCEPT ![i] = n]
        BY <3>2
      <4> QED
        BY <4>1, <1>4, ReplacedKeys
    <3>4. KeyOf[skills[i]] # KeyOf[n] => KeyOf[n] \notin Keys(skills)
      BY <3>1 DEF Keys
    <3>5. call'[c].pc = "list" /\ call'[c].kind = "patch" /\ call'[c].new = n
          /\ call'[c].old = skills[i]
      BY <3>2
    <3>6. ListReady(call[c])'
      BY <3>5, <3>3, <3>4, <1>2, <1>4 DEF ListReady
    <3> QED
      BY <3>5, <3>6 DEF Between
  <2>3. CASE DeleteSkill(c)
    <3>1. PICK i \in 1..Len(skills) :
             Moves(c, [pc |-> "list", list |-> RemoveAt(skills, i), new |-> NoValue,
                       old |-> skills[i], note |-> NoValue, kind |-> "delete"])
      BY <2>3 DEF DeleteSkill
    <3>2. call'[c] = [pc |-> "list", list |-> RemoveAt(skills, i), new |-> NoValue,
                      old |-> skills[i], note |-> NoValue, kind |-> "delete"]
      BY <3>1 DEF Moves, SkillTypeOK
    <3>3. Keys(skills) \ {KeyOf[skills[i]]} \subseteq Keys(call'[c].list)
      BY <3>2, <1>4, RemovedKeys
    <3>4. ListReady(call[c])'
      BY <3>2, <3>3, <1>2, <1>4 DEF ListReady
    <3> QED
      BY <3>2, <3>4 DEF Between
  <2>4. CASE UploadEvidence(c)
    <3>1. PICK i \in 1..Len(skills) :
             Moves(c, [pc |-> "await", list |-> <<>>, new |-> skills[i], old |-> NoValue,
                       note |-> NoValue, kind |-> "evidence"])
      BY <2>4 DEF UploadEvidence
    <3>2. call'[c] = [pc |-> "await", list |-> <<>>, new |-> skills[i], old |-> NoValue,
                      note |-> NoValue, kind |-> "evidence"]
      BY <3>1 DEF Moves, SkillTypeOK
    <3>3. KeyOf[call'[c].new] \in Keys(skills)
      BY <3>2 DEF Keys
    <3> QED
      BY <3>2, <3>3, <1>2, <1>4 DEF Between
  <2> QED
    BY <2>1, <2>2, <2>3, <2>4
<1> QED
  BY <1>1, <1>3, <1>5, LoneStep

\* The list is written: the names that change are those between two writes.
LEMMA WriteSettled ==
  ASSUME NEW c \in Call, SkillTypeOK, WriteList(c), Between(call[c])
  PROVE  Between(call[c])' /\ call'[c].pc \notin {"idle", "done"}
<1>1. PICK r, q : r = call[c] /\ q = call'[c]
  OBVIOUS
<1>2. Holds(r) /\ r.pc = "list" /\ r \in Work /\ r.kind \in {"create", "patch", "delete"}
  BY <1>1 DEF SkillTypeOK, WriteList, NoWork, Idle, Holds, Work
<1>3. /\ q = [r EXCEPT !.pc = q.pc]
      /\ q.pc = CASE r.kind = "create" -> "store"
                  [] r.kind = "patch" -> IF r.old = r.new THEN "read" ELSE "rename"
                  [] OTHER -> "drop"
  BY <1>1, WriteTyped
<1>4. q.new = r.new /\ q.old = r.old
  BY <1>2, <1>3 DEF Work
<1>5. ListReady(r)
  BY <1>1, <1>2 DEF Between
<1>6. skills' = r.list /\ detail' = detail /\ proofs' = AfterList(r) /\ Keys(skills)' = Keys(r.list)
  BY <1>1 DEF WriteList, Keys
<1>7. \A k \in Key : /\ detail[k].file = proofs[k]
                     /\ detail[k].stored => k \in Keys(skills)
                     /\ ~detail[k].stored => detail[k].file = NoValue
  BY <1>5 DEF ListReady, SettledBut
<1>8. Key' = Key
  BY DEF Key
<1>9. CASE r.kind = "create"
  <2>1. q.pc = "store" /\ proofs' = proofs /\ KeyOf[r.new] \in Keys(r.list)
    BY <1>9, <1>3, <1>5, <1>6 DEF AfterList, ListReady
  <2>2. SettledBut({})'
    BY <2>1, <1>5, <1>6, <1>7, <1>8, <1>9 DEF SettledBut, ListReady
  <2> QED
    BY <2>1, <2>2, <1>1, <1>4, <1>6 DEF Between
<1>10. CASE r.kind = "delete"
  <2>1. PICK was : was = KeyOf[r.old]
    OBVIOUS
  <2>2. was \in Key /\ q.pc = "drop" /\ proofs' = [proofs EXCEPT ![was] = NoValue]
    BY <2>1, <1>2, <1>3, <1>6, <1>10, KeyOfName DEF AfterList, Holds
  <2>3. proofs'[was] = NoValue /\ \A k \in Key : k # was => proofs'[k] = proofs[k]
    BY <2>2 DEF SkillTypeOK
  <2>4. SettledBut({was})'
    BY <2>1, <2>3, <1>5, <1>6, <1>7, <1>8, <1>10 DEF SettledBut, ListReady
  <2> QED
    BY <2>1, <2>2, <2>3, <2>4, <1>1, <1>4 DEF Between
<1>11. CASE r.kind = "patch"
  <2>1. PICK was, to : was = KeyOf[r.old] /\ to = KeyOf[r.new]
    OBVIOUS
  <2>2. /\ was \in Key /\ to \in Key /\ r.old \in Name /\ r.new \in Name
        /\ q.pc = IF r.old = r.new THEN "read" ELSE "rename"
        /\ proofs' = [k \in Key |-> IF k = to THEN proofs[was]
                                    ELSE IF k = was THEN NoValue ELSE proofs[k]]
    BY <2>1, <1>2, <1>3, <1>6, <1>11, KeyOfName DEF AfterList, Holds
  <2>3. to \in Keys(r.list) /\ Keys(skills) \ {was} \subseteq Keys(r.list)
        /\ (was # to => to \notin Keys(skills))
    BY <2>1, <1>5, <1>11 DEF ListReady
  <2>4. CASE was = to
    <3>1. proofs' = proofs
      BY <2>2, <2>4 DEF SkillTypeOK
    <3>2. SettledBut({})'
      BY <3>1, <2>3, <2>4, <1>6, <1>7, <1>8 DEF SettledBut
    <3>3. RowToMove(call[c])'
      BY <3>2, <2>1, <2>4, <1>1, <1>4 DEF RowToMove
    <3> QED
      BY <3>2, <3>3, <2>1, <2>2, <2>3, <1>1, <1>4, <1>6 DEF Between
  <2>5. CASE was # to
    <3>1. /\ proofs'[to] = proofs[was] /\ proofs'[was] = NoValue
          /\ \A k \in Key \ {was, to} : proofs'[k] = proofs[k]
      BY <2>2, <2>5
    <3>2. SettledBut({was, to})'
      BY <3>1, <2>3, <1>6, <1>7, <1>8 DEF SettledBut
    <3>3. ~detail[to].stored /\ detail[to].file = NoValue
      BY <2>2, <2>3, <2>5, <1>7
    <3>4. RowToMove(call[c])' /\ q.pc = "rename"
      BY <3>1, <3>2, <3>3, <2>1, <2>2, <2>5, <1>1, <1>4, <1>6, <1>7 DEF RowToMove
    <3> QED
      BY <3>4, <2>1, <2>3, <1>1, <1>4, <1>6 DEF Between
  <2> QED
    BY <2>4, <2>5
<1> QED
  BY <1>2, <1>9, <1>10, <1>11

\* The row moves with its name.
LEMMA RenameSettled ==
  ASSUME NEW c \in Call, SkillTypeOK, RenameDetail(c), Between(call[c])
  PROVE  IF call'[c].pc \in {"idle", "done"} THEN SettledBut({})' ELSE Between(call[c])'
<1>1. PICK r, was, to : r = call[c] /\ was = KeyOf[r.old] /\ to = KeyOf[r.new]
  OBVIOUS
<1>2. /\ was \in Key /\ to \in Key
      /\ call'[c].pc = "done" \/ (/\ call'[c].pc = "read" /\ call'[c].new = r.new)
  BY <1>1, RenameTyped, KeyOfName
<1>3. RowToMove(r) /\ to \in Keys(skills) /\ UNCHANGED <<skills, proofs>>
  BY <1>1 DEF Between, RenameDetail
<1>4. ~(was # to /\ detail[was].stored /\ detail[to].stored)
  BY <1>1, <1>3 DEF RowToMove
<1>5. detail' = IF ~detail[was].stored \/ was = to THEN detail
                ELSE [detail EXCEPT ![to] = detail[was], ![was] = NoDetail]
  BY <1>1, <1>4 DEF RenameDetail
<1>6. Keys(skills)' = Keys(skills) /\ Key' = Key
  BY <1>3 DEF Keys, Key
<1>7. SettledBut({})'
  <2>1. CASE was = to
    BY <2>1, <1>1, <1>3, <1>5, <1>6 DEF RowToMove, SettledBut
  <2>2. CASE was # to
    <3>1. /\ SettledBut({was, to})
          /\ ~detail[to].stored /\ detail[to].file = NoValue
          /\ proofs[to] = detail[was].file /\ proofs[was] = NoValue
          /\ ~detail[was].stored => detail[was].file = NoValue
      BY <2>2, <1>1, <1>3 DEF RowToMove
    <3>2. CASE ~detail[was].stored
      BY <3>1, <3>2, <1>3, <1>5, <1>6 DEF SettledBut
    <3>3. CASE detail[was].stored
      <4>1. /\ detail'[to] = detail[was] /\ detail'[was] = NoDetail
            /\ \A k \in Key \ {was, to} : detail'[k] = detail[k]
        BY <3>3, <2>2, <1>2, <1>5 DEF SkillTypeOK
      <4>2. ~detail'[was].stored /\ detail'[was].file = NoValue
        BY <4>1 DEF NoDetail
      <4> QED
        BY <4>1, <4>2, <3>1, <3>3, <1>2, <1>3, <1>6 DEF SettledBut
    <3> QED
      BY <3>2, <3>3
  <2> QED
    BY <2>1, <2>2
<1> QED
  BY <1>1, <1>2, <1>3, <1>6, <1>7 DEF Between

LEMMA ReadSettled ==
  ASSUME NEW c \in Call, SkillTypeOK, ReadDetail(c), Between(call[c])
  PROVE  Between(call[c])' /\ call'[c].pc \notin {"idle", "done"}
<1>1. /\ call'[c].pc = "keep" /\ call'[c].new = call[c].new
      /\ call'[c].list = <<>> \/ call'[c].list[1] = detail[KeyOf[call[c].new]].file
  BY ReadTyped
<1>2. /\ SettledBut({}) /\ KeyOf[call[c].new] \in Keys(skills)
      /\ UNCHANGED <<skills, detail, proofs>>
  BY DEF Between, ReadDetail
<1>3. SettledBut({})' /\ Keys(skills)' = Keys(skills)
  BY <1>2, SameSettled DEF Keys
<1>4. FileRead(call[c])'
  BY <1>1, <1>2 DEF FileRead
<1> QED
  BY <1>1, <1>2, <1>3, <1>4 DEF Between

\* What is stored last agrees with what the list and the files say.
LEMMA StoreSettled ==
  ASSUME NEW c \in Call, SkillTypeOK, Between(call[c]),
         StoreDetail(c) \/ StoreEvidence(c) \/ DropDetail(c)
  PROVE  SettledBut({})'
<1>1. PICK r : r = call[c]
  OBVIOUS
<1>2. Holds(r) /\ r \in Work /\ r.pc \in {"store", "keep", "await", "drop"}
  BY <1>1 DEF SkillTypeOK, StoreDetail, StoreEvidence, DropDetail, NoWork, Idle, Holds
<1>3. Keys(skills)' = Keys(skills) /\ Key' = Key /\ detail \in [Key -> DetailRow]
  BY DEF StoreDetail, StoreEvidence, DropDetail, Keys, Key, SkillTypeOK
<1>4. CASE StoreDetail(c)
  <2>1. /\ r.new \in Name /\ r.note \in Note \cup {NoValue} /\ r.pc \in {"store", "keep"}
        /\ SettledBut({}) /\ KeyOf[r.new] \in Keys(skills)
        /\ r.pc = "keep" => FileRead(r) /\ r.list \in Seq(Call)
    BY <1>1, <1>2, <1>4 DEF StoreDetail, Between, Holds, Work
  <2>2. PICK k, file : /\ k = KeyOf[r.new]
                       /\ file = IF r.pc = "store" \/ r.list = <<>> THEN NoValue ELSE r.list[1]
    OBVIOUS
  <2>3. k \in Key /\ file \in Call \cup {NoValue} /\ (file = NoValue \/ file = detail[k].file)
    BY <2>1, <2>2, KeyOfName DEF FileRead
  <2>4. UpsertDetail(k, r.note, file) /\ proofs' = proofs
    BY <1>1, <1>4, <2>2 DEF StoreDetail
  <2>5. /\ detail'[k].stored /\ detail'[k].file = detail[k].file
        /\ \A x \in Key : x # k => detail'[x] = detail[x]
    BY <2>1, <2>3, <2>4, <1>3, UpsertTyped
  <2> QED
    BY <2>1, <2>2, <2>4, <2>5, <1>3 DEF SettledBut
<1>5. CASE StoreEvidence(c)
  <2>1. /\ r.new \in Name /\ r.pc = "await" /\ SettledBut({}) /\ KeyOf[r.new] \in Keys(skills)
    BY <1>1, <1>2, <1>5 DEF StoreEvidence, Between, Holds
  <2>2. PICK k, note : k = KeyOf[r.new] /\ note = detail[k].note
    OBVIOUS
  <2>3. k \in Key /\ note \in Note \cup {NoValue} /\ c # NoValue
    BY <2>1, <2>2, <1>3, KeyOfName, NoValueIsNoCall DEF DetailRow
  <2>4. UpsertDetail(k, note, c) /\ proofs' = [proofs EXCEPT ![k] = c]
    BY <1>1, <1>5, <2>2 DEF StoreEvidence
  <2>5. /\ detail'[k].stored /\ detail'[k].file = c
        /\ \A x \in Key : x # k => detail'[x] = detail[x]
    BY <2>3, <2>4, <1>3, UpsertTyped
  <2>6. proofs'[k] = c /\ \A x \in Key : x # k => proofs'[x] = proofs[x]
    BY <2>3, <2>4 DEF SkillTypeOK
  <2> QED
    BY <2>1, <2>2, <2>5, <2>6, <1>3 DEF SettledBut
<1>6. CASE DropDetail(c)
  <2>1. PICK k : k = KeyOf[r.old]
    OBVIOUS
  <2>2. /\ r.old \in Name /\ r.pc = "drop" /\ SettledBut({k}) /\ proofs[k] = NoValue
        /\ detail' = [detail EXCEPT ![k] = NoDetail] /\ proofs' = proofs
    BY <2>1, <1>1, <1>2, <1>6 DEF DropDetail, Between, Holds
  <2>3. /\ ~detail'[k].stored /\ detail'[k].file = NoValue
        /\ \A x \in Key \ {k} : detail'[x] = detail[x]
    BY <2>1, <2>2, <1>3, KeyOfName DEF NoDetail
  <2> QED
    BY <2>2, <2>3, <1>3 DEF SettledBut
<1> QED
  BY <1>4, <1>5, <1>6

\* A call that works on is the only one, or the calls have overlapped before.
LEMMA WorksSettled ==
  ASSUME NEW c \in Call, SkillTypeOK, EvidenceInv,
         WriteList(c) \/ RenameDetail(c) \/ ReadDetail(c) \/ StoreDetail(c)
         \/ StoreEvidence(c) \/ DropDetail(c)
  PROVE  EvidenceInv'
<1> SUFFICES ASSUME orderly' PROVE EvidenceInv'
  BY DEF EvidenceInv
<1>1. orderly /\ c \in Running
  BY DEF WriteList, RenameDetail, ReadDetail, StoreDetail, StoreEvidence, DropDetail, Running
<1>2. Between(call[c]) /\ Running \subseteq {c}
  BY <1>1 DEF EvidenceInv, OneAtATime
<1>3. \A b \in Call : b # c => call'[b] = call[b]
  BY WriteTyped, RenameTyped, ReadTyped, StoreTyped
<1>4. IF call'[c].pc \in {"idle", "done"} THEN SettledBut({})' ELSE Between(call[c])'
  <2>1. CASE WriteList(c)
    BY <2>1, <1>2, WriteSettled
  <2>2. CASE RenameDetail(c)
    BY <2>2, <1>2, RenameSettled
  <2>3. CASE ReadDetail(c)
    BY <2>3, <1>2, ReadSettled
  <2>4. CASE StoreDetail(c) \/ StoreEvidence(c) \/ DropDetail(c)
    BY <2>4, <1>2, StoreSettled, StoreTyped
  <2> QED
    BY <2>1, <2>2, <2>3, <2>4
<1> QED
  BY <1>2, <1>3, <1>4, LoneStep

LEMMA SameBetween ==
  ASSUME NEW r, Between(r), UNCHANGED <<skills, detail, proofs>>
  PROVE  Between(r)'
<1>1. Keys(skills)' = Keys(skills)
  BY DEF Keys
<1>2. ListReady(r) => ListReady(r)'
  BY <1>1, SameSettled DEF ListReady
<1>3. RowToMove(r) => RowToMove(r)'
  BY SameSettled DEF RowToMove
<1>4. FileRead(r) => FileRead(r)'
  BY DEF FileRead
<1> QED
  BY <1>1, <1>2, <1>3, <1>4, SameSettled DEF Between

LEMMA EvidenceStep ==
  SkillTypeOK /\ EvidenceInv /\ [SkillNext]_skillVars => EvidenceInv'
<1> SUFFICES ASSUME SkillTypeOK, EvidenceInv, [SkillNext]_skillVars
             PROVE  EvidenceInv'
  OBVIOUS
<1>1. CASE UNCHANGED skillVars
  <2> SUFFICES ASSUME orderly' PROVE EvidenceInv'
    BY DEF EvidenceInv
  <2>1. orderly /\ call' = call /\ UNCHANGED <<skills, detail, proofs>>
    BY <1>1 DEF skillVars
  <2>2. Running' = Running /\ OneAtATime'
    BY <2>1 DEF Running, EvidenceInv, OneAtATime
  <2>3. \A c \in Running : Between(call[c])'
    <3> TAKE c \in Running
    <3>1. PICK r : r = call[c]
      OBVIOUS
    <3>2. Between(r)
      BY <2>1, <3>1 DEF EvidenceInv
    <3>3. Between(r)'
      BY <2>1, <3>2, SameBetween
    <3> QED
      BY <2>1, <3>1, <3>3
  <2>4. Running = {} => SettledBut({})'
    BY <2>1, SameSettled DEF EvidenceInv
  <2> QED
    BY <2>2, <2>3, <2>4 DEF EvidenceInv
<1>2. CASE SkillNext
  <2>1. PICK c \in Call :
          \/ CreateSkill(c) \/ PatchSkill(c) \/ DeleteSkill(c) \/ UploadEvidence(c)
          \/ ReplaceSkills(c)
          \/ WriteList(c) \/ RenameDetail(c) \/ ReadDetail(c) \/ StoreDetail(c)
          \/ StoreEvidence(c) \/ DropDetail(c)
    BY <1>2 DEF SkillNext
  <2>2. CASE ReplaceSkills(c)
    BY <2>2 DEF ReplaceSkills, EvidenceInv
  <2> QED
    BY <2>1, <2>2, EntersSettled, WorksSettled
<1> QED
  BY <1>1, <1>2

LEMMA EvidenceStart == SkillInit => EvidenceInv
<1> SUFFICES ASSUME SkillInit PROVE EvidenceInv
  OBVIOUS
<1>1. Running = {}
  BY DEF SkillInit, Running, Idle
<1>2. SettledBut({})
  BY DEF SkillInit, SettledBut, NoDetail
<1> QED
  BY <1>1, <1>2 DEF EvidenceInv, OneAtATime

LEMMA EvidenceShown == EvidenceInv /\ SkillTypeOK => EvidenceOfItsSkill
<1> SUFFICES ASSUME EvidenceInv, SkillTypeOK, orderly, Running = {}
             PROVE  /\ \A k \in Keys(skills) : detail[k].file = proofs[k]
                    /\ \A k \in Key : detail[k].stored => k \in Keys(skills)
  BY DEF EvidenceOfItsSkill
<1>1. SettledBut({}) /\ Keys(skills) \subseteq Key
  BY KeysAreKeys DEF EvidenceInv, SkillTypeOK
<1> QED
  BY <1>1 DEF SettledBut

\* EvidenceOfItsSkill: with one call of the skill endpoints at a time, however
\* long their sequence, a listed skill shows the file last uploaded for it and
\* no row is left behind for a name that is not listed.
THEOREM EvidenceTheorem == SkillSpec => []EvidenceOfItsSkill
<1>1. SkillInit => SkillTypeOK /\ EvidenceInv
  BY SkillTypeStart, EvidenceStart
<1>2. SkillTypeOK /\ EvidenceInv /\ [SkillNext]_skillVars => (SkillTypeOK /\ EvidenceInv)'
  BY SkillTypeStep, EvidenceStep
<1>3. SkillTypeOK /\ EvidenceInv => EvidenceOfItsSkill
  BY EvidenceShown
<1> QED
  BY <1>1, <1>2, <1>3, PTL DEF SkillSpec

---------------------------------------------------------------------------
(* Reviewing a CV.  A list is cut down to the items at some positions: the *)
(* n-th of them is at the position with n of them at or before it.         *)

(* A list of texts loses its blanks and its twins, and no key of a text.    *)
LEMMA TokensThere ==
  ASSUME NEW list \in Seq(Texts)
  PROVE  /\ Tokens(list) \in Seq(Texts)
         /\ \A k \in 1..Len(Tokens(list)) : /\ Clean(Tokens(list)[k]) # Absent
                                            /\ \E i \in 1..Len(list) : Tokens(list)[k] = list[i]
         /\ \A i \in 1..Len(list) : Clean(list[i]) # Absent =>
              \E k \in 1..Len(Tokens(list)) : FoldKey(Tokens(list)[k]) = FoldKey(list[i])
<1> DEFINE full == {i \in 1..Len(list) : Clean(list[i]) # Absent}
           firsts == {i \in full : \A j \in full : j < i => FoldKey(list[j]) # FoldKey(list[i])}
<1>1. Tokens(list) = ItemsAt(list, firsts)
  BY DEF Tokens
<1>2. firsts \in SUBSET (1..Len(list))
  OBVIOUS
<1>3. /\ ItemsAt(list, firsts) \in Seq(Texts)
      /\ \A k \in 1..Len(ItemsAt(list, firsts)) : \E i \in firsts : ItemsAt(list, firsts)[k] = list[i]
      /\ \A i \in firsts : \E k \in 1..Len(ItemsAt(list, firsts)) : ItemsAt(list, firsts)[k] = list[i]
  <2> HIDE DEF firsts
  <2> QED
    BY <1>2, ItemsThere
<1>4. ASSUME NEW i \in full PROVE \E j \in firsts : FoldKey(list[j]) = FoldKey(list[i])
  <2> DEFINE twins == {j \in full : FoldKey(list[j]) = FoldKey(list[i])}
  <2>1. twins \in SUBSET Nat /\ i \in twins
    OBVIOUS
  <2>2. twins # {}
    BY <2>1
  <2> HIDE DEF twins
  <2>3. PICK n \in twins : \A j \in twins : n <= j
    BY <2>1, <2>2, LeastOf
  <2>4. n \in full /\ FoldKey(list[n]) = FoldKey(list[i]) /\ n \in Nat
    BY <2>1, <2>3 DEF twins
  <2>5. ASSUME NEW j \in full, j < n PROVE FoldKey(list[j]) # FoldKey(list[n])
    <3>1. j \in Nat
      OBVIOUS
    <3>2. j \notin twins
      BY <2>3, <2>4, <2>5, <3>1
    <3> QED
      BY <3>2, <2>4 DEF twins
  <2> QED
    BY <2>4, <2>5
<1>5. \A i \in firsts : i \in 1..Len(list) /\ Clean(list[i]) # Absent
  OBVIOUS
<1>6. ASSUME NEW i \in 1..Len(list), Clean(list[i]) # Absent
      PROVE  \E k \in 1..Len(Tokens(list)) : FoldKey(Tokens(list)[k]) = FoldKey(list[i])
  <2>1. i \in full
    BY <1>6
  <2>2. PICK j \in firsts : FoldKey(list[j]) = FoldKey(list[i])
    BY <2>1, <1>4
  <2> HIDE DEF firsts, full
  <2> QED
    BY <2>2, <1>1, <1>3
<1> HIDE DEF firsts, full
<1> QED
  BY <1>1, <1>3, <1>5, <1>6

(* A draft: clean texts in the lists, entries in the sections.              *)
DraftShape(d) ==
  /\ d.scalars \in [ScalarField -> Texts \cup {Absent}]
  /\ d.lists \in [TokenField -> Seq(Texts)]
  /\ \A f \in TokenField : \A i \in 1..Len(d.lists[f]) : Clean(d.lists[f][i]) # Absent
  /\ d.entries \in [SectionName -> Seq(RawEntry)]

LEMMA DraftTyped ==
  ASSUME NEW u \in Upload
  PROVE  DraftShape(BuildDraft(u.raw))
<1>1. ASSUME NEW f \in TokenField
      PROVE  /\ Tokens(u.raw.lists[f]) \in Seq(Texts)
             /\ \A i \in 1..Len(Tokens(u.raw.lists[f])) : Clean(Tokens(u.raw.lists[f])[i]) # Absent
  BY ReviewAssumption, TokensThere
<1>2. ASSUME NEW s \in SectionName PROVE DraftEntries(u.raw.entries[s]) \in Seq(RawEntry)
  <2>1. PICK raws : raws = u.raw.entries[s]
    OBVIOUS
  <2>2. raws \in Seq(RawEntry)
    BY <2>1, ReviewAssumption
  <2> DEFINE all == [i \in 1..Len(raws) |-> Drafted(raws[i])]
             kept == {i \in 1..Len(raws) : all[i].name # Absent}
  <2>3. \A i \in 1..Len(raws) : raws[i] \in RawEntry
    BY <2>2
  <2>4. \A e \in RawEntry : Drafted(e) \in RawEntry
    BY DEF Drafted, RawEntry, Clean, SupportedYear, Years
  <2>5. Len(raws) \in Nat
    BY <2>2
  <2>6. all \in Seq(RawEntry) /\ Len(all) = Len(raws)
    BY <2>3, <2>4, <2>5
  <2>7. kept \in SUBSET (1..Len(all))
    BY <2>6
  <2>8. DraftEntries(raws) = ItemsAt(all, kept)
    BY DEF DraftEntries
  <2> HIDE DEF all, kept
  <2> QED
    BY <2>1, <2>6, <2>7, <2>8, ItemsThere
<1>3. ASSUME NEW f \in ScalarField PROVE Clean(u.raw.scalars[f]) \in Texts \cup {Absent}
  BY ReviewAssumption DEF Clean
<1> QED
  BY <1>1, <1>2, <1>3 DEF DraftShape, BuildDraft

(* A profile: its texts, its lists and its sections.                        *)
ProfileRecord == [scalars : [ScalarField -> Texts \cup {Absent}],
                  lists   : [TokenField -> Seq(Texts)],
                  entries : [SectionName -> Seq(RawEntry)]]
HeldShape(h) == h \in ProfileRecord

(* What is still to be done for a draft: a value the profile lacks, an item *)
(* with a key none of its items has, an entry with a key none of its        *)
(* entries has.                                                             *)
ScalarOpen(d, h, f) == /\ d.scalars[f] # Absent
                       /\ h.scalars[f] = Absent \/ FoldKey(h.scalars[f]) # FoldKey(d.scalars[f])
HasKey(list, t) == \E i \in 1..Len(list) : Clean(list[i]) # Absent /\ FoldKey(list[i]) = FoldKey(t)
ListOpen(d, h, f) == \E i \in 1..Len(d.lists[f]) : ~HasKey(h.lists[f], d.lists[f][i])
EntryOpen(d, h, s, i) == \A j \in 1..Len(h.entries[s]) :
                            EntryKey(s, h.entries[s][j]) # EntryKey(s, d.entries[s][i])
Open(d, h, op) ==
  \/ \E f \in ScalarField : op = <<f, 0>> /\ ScalarOpen(d, h, f)
  \/ \E f \in TokenField : op = <<f, 0>> /\ ListOpen(d, h, f)
  \/ \E s \in SectionName : \E i \in 1..Len(d.entries[s]) : op = <<s, i>> /\ EntryOpen(d, h, s, i)

LEMMA ItemsToAddThere ==
  ASSUME NEW current \in Seq(Texts), NEW suggested \in Seq(Texts)
  PROVE  LET add == ItemsToAdd(Tokens(current), suggested) IN
         /\ add \in Seq(Texts)
         /\ add = <<>> <=> \A i \in 1..Len(suggested) : HasKey(current, suggested[i])
         /\ \A k \in 1..Len(add) : \E i \in 1..Len(suggested) : add[k] = suggested[i]
         /\ \A i \in 1..Len(suggested) :
              HasKey(current, suggested[i]) \/ \E k \in 1..Len(add) : add[k] = suggested[i]
<1>1. PICK tokens : tokens = Tokens(current)
  OBVIOUS
<1>2. PICK new : new = {i \in 1..Len(suggested) :
                          \A j \in 1..Len(tokens) : FoldKey(tokens[j]) # FoldKey(suggested[i])}
  OBVIOUS
<1>3. \A i \in 1..Len(suggested) : i \in new <=> ~HasKey(current, suggested[i])
  <2>1. /\ \A k \in 1..Len(tokens) : /\ Clean(tokens[k]) # Absent
                                    /\ \E i \in 1..Len(current) : tokens[k] = current[i]
        /\ \A i \in 1..Len(current) : Clean(current[i]) # Absent =>
             \E k \in 1..Len(tokens) : FoldKey(tokens[k]) = FoldKey(current[i])
    BY <1>1, TokensThere
  <2>2. ASSUME NEW t
        PROVE  (\A j \in 1..Len(tokens) : FoldKey(tokens[j]) # FoldKey(t)) <=> ~HasKey(current, t)
    BY <2>1 DEF HasKey
  <2> QED
    BY <1>2, <2>2
<1>4. new \in SUBSET (1..Len(suggested))
  BY <1>2
<1>5. PICK add : add = ItemsAt(suggested, new)
  OBVIOUS
<1>6. ItemsToAdd(Tokens(current), suggested) = add
  BY <1>1, <1>2, <1>5 DEF ItemsToAdd
<1>7. /\ add \in Seq(Texts)
      /\ \A k \in 1..Len(add) : \E i \in new : add[k] = suggested[i]
      /\ \A i \in new : \E k \in 1..Len(add) : add[k] = suggested[i]
      /\ add = <<>> <=> new = {}
  <2>1. /\ ItemsAt(suggested, new) \in Seq(Texts)
        /\ \A k \in 1..Len(ItemsAt(suggested, new)) : \E i \in new : ItemsAt(suggested, new)[k] = suggested[i]
        /\ \A i \in new : \E k \in 1..Len(ItemsAt(suggested, new)) : ItemsAt(suggested, new)[k] = suggested[i]
        /\ ItemsAt(suggested, new) = <<>> <=> new = {}
    BY <1>4, ItemsThere
  <2> QED
    BY <1>5, <2>1
<1> QED
  BY <1>3, <1>4, <1>6, <1>7

LEMMA PlanShows ==
  ASSUME NEW d, NEW h, DraftShape(d)
  PROVE  LET plan == ApplyPlan(d, h) IN
         /\ \A f \in ScalarField : plan.scalars[f].suggested = d.scalars[f]
         /\ \A f \in TokenField : plan.lists[f].add = ItemsToAdd(Tokens(h.lists[f]), d.lists[f])
         /\ \A s \in SectionName : /\ Len(plan.entries[s]) = Len(d.entries[s])
                                   /\ \A i \in 1..Len(d.entries[s]) : plan.entries[s][i].entry = d.entries[s][i]
<1>1. \A s \in SectionName : Len(d.entries[s]) \in Nat
  BY DEF DraftShape
<1>2. ASSUME NEW s \in SectionName
      PROVE  /\ Len(SectionPlan(s, d.entries[s], h.entries[s])) = Len(d.entries[s])
             /\ \A i \in 1..Len(d.entries[s]) :
                  SectionPlan(s, d.entries[s], h.entries[s])[i].entry = d.entries[s][i]
  BY <1>1 DEF SectionPlan
<1> QED
  BY <1>2 DEF ApplyPlan, ScalarPlan, ListPlan

(* The operations of a plan are what is still to be done.                   *)
LEMMA ActionableIsOpen ==
  ASSUME NEW d, NEW h, DraftShape(d), HeldShape(h)
  PROVE  \A op : op \in Actionable(ApplyPlan(d, h)) <=> Open(d, h, op)
<1>1. PICK plan : plan = ApplyPlan(d, h)
  OBVIOUS
<1>2. ASSUME NEW f \in ScalarField
      PROVE  plan.scalars[f].action # "noop" <=> ScalarOpen(d, h, f)
  <2>1. plan.scalars[f] = ScalarPlan(h.scalars[f], d.scalars[f])
    BY <1>1 DEF ApplyPlan
  <2> QED
    BY <2>1 DEF ScalarPlan, ScalarOpen
<1>3. ASSUME NEW f \in TokenField
      PROVE  plan.lists[f].action # "noop" <=> ListOpen(d, h, f)
  <2>1. plan.lists[f] = ListPlan(h.lists[f], d.lists[f])
    BY <1>1 DEF ApplyPlan
  <2>2. plan.lists[f].action # "noop" <=> ItemsToAdd(Tokens(h.lists[f]), d.lists[f]) # <<>>
    BY <2>1 DEF ListPlan
  <2>3. h.lists[f] \in Seq(Texts) /\ d.lists[f] \in Seq(Texts)
    BY DEF DraftShape, HeldShape, ProfileRecord
  <2>4. ItemsToAdd(Tokens(h.lists[f]), d.lists[f]) = <<>>
          <=> \A i \in 1..Len(d.lists[f]) : HasKey(h.lists[f], d.lists[f][i])
    BY <2>3, ItemsToAddThere
  <2> QED
    BY <2>2, <2>4 DEF ListOpen
<1>4. ASSUME NEW s \in SectionName
      PROVE  /\ Len(plan.entries[s]) = Len(d.entries[s])
             /\ \A i \in 1..Len(d.entries[s]) :
                  plan.entries[s][i].action # "noop" <=> EntryOpen(d, h, s, i)
  <2>1. plan.entries[s] = SectionPlan(s, d.entries[s], h.entries[s])
    BY <1>1 DEF ApplyPlan
  <2>2. Len(d.entries[s]) \in Nat
    BY DEF DraftShape
  <2> QED
    BY <2>1, <2>2 DEF SectionPlan, EntryAction, EntryOpen
<1>5. ASSUME NEW op
      PROVE  op \in Actionable(plan) <=>
               \/ \E f \in ScalarField : op = <<f, 0>> /\ plan.scalars[f].action # "noop"
               \/ \E f \in TokenField : op = <<f, 0>> /\ plan.lists[f].action # "noop"
               \/ \E s \in SectionName : \E i \in 1..Len(plan.entries[s]) :
                    op = <<s, i>> /\ plan.entries[s][i].action # "noop"
  BY DEF Actionable
<1> SUFFICES ASSUME NEW op PROVE op \in Actionable(plan) <=> Open(d, h, op)
  BY <1>1
<1> HIDE <1>1
<1> QED
  BY <1>2, <1>3, <1>4, <1>5 DEF Open

LEMMA PositionsThere ==
  ASSUME NEW selection \in Seq(Pick), NEW s \in SectionName
  PROVE  /\ Positions(s, selection) \in Seq(Int)
         /\ \A k \in 1..Len(Positions(s, selection)) :
              \E i \in 1..Len(selection) : selection[i] = <<s, Positions(s, selection)[k]>>
         /\ \A i \in 1..Len(selection) : selection[i][1] = s =>
              \E k \in 1..Len(Positions(s, selection)) : Positions(s, selection)[k] = selection[i][2]
<1>1. PICK at : at = {i \in 1..Len(selection) : selection[i][1] = s}
  OBVIOUS
<1>2. PICK of : of = ItemsAt(selection, at)
  OBVIOUS
<1>3. at \in SUBSET (1..Len(selection))
  BY <1>1
<1>4. /\ of \in Seq(Pick)
      /\ \A k \in 1..Len(of) : \E i \in at : of[k] = selection[i]
      /\ \A i \in at : \E k \in 1..Len(of) : of[k] = selection[i]
  <2>1. /\ ItemsAt(selection, at) \in Seq(Pick)
        /\ \A k \in 1..Len(ItemsAt(selection, at)) : \E i \in at : ItemsAt(selection, at)[k] = selection[i]
        /\ \A i \in at : \E k \in 1..Len(ItemsAt(selection, at)) : ItemsAt(selection, at)[k] = selection[i]
    BY <1>3, ItemsThere
  <2> QED
    BY <1>2, <2>1
<1>5. Positions(s, selection) = [k \in 1..Len(of) |-> of[k][2]]
  BY <1>1, <1>2 DEF Positions
<1>6. Len(of) \in Nat /\ \A k \in 1..Len(of) : of[k] \in Pick
  BY <1>4
<1>7. \A p \in Pick : p = <<p[1], p[2]>> /\ p[2] \in Int
  BY DEF Pick
<1>8. Positions(s, selection) \in Seq(Int) /\ Len(Positions(s, selection)) = Len(of)
  BY <1>5, <1>6, <1>7
<1>9. \A k \in 1..Len(of) : Positions(s, selection)[k] = of[k][2]
  BY <1>5
<1>10. ASSUME NEW k \in 1..Len(of)
       PROVE  \E i \in 1..Len(selection) : selection[i] = <<s, Positions(s, selection)[k]>>
  <2>1. PICK i \in at : of[k] = selection[i]
    BY <1>4
  <2>2. i \in 1..Len(selection) /\ selection[i][1] = s
    BY <1>1
  <2>3. selection[i] = <<s, of[k][2]>>
    BY <1>6, <1>7, <2>1, <2>2
  <2> QED
    BY <1>9, <2>2, <2>3
<1>11. ASSUME NEW i \in 1..Len(selection), selection[i][1] = s
       PROVE  \E k \in 1..Len(of) : Positions(s, selection)[k] = selection[i][2]
  <2>1. i \in at
    BY <1>1, <1>11
  <2>2. PICK k \in 1..Len(of) : of[k] = selection[i]
    BY <1>4, <2>1
  <2> QED
    BY <1>9, <2>2
<1> QED
  BY <1>8, <1>10, <1>11

(* The operations of a selection are those of the plan.                     *)
PickedOf(d, s, selection) ==
  [k \in 1..Len(Positions(s, selection)) |-> d.entries[s][Positions(s, selection)[k]]]

LEMMA PickedEntriesAre ==
  ASSUME NEW d, NEW plan, NEW selection \in Seq(Pick), NEW s \in SectionName,
         \A i \in 1..Len(d.entries[s]) : plan.entries[s][i].entry = d.entries[s][i],
         \A k \in 1..Len(selection) : selection[k][1] = s => selection[k][2] \in 1..Len(d.entries[s])
  PROVE  /\ PickedEntries(plan, s, selection) = PickedOf(d, s, selection)
         /\ \A k \in 1..Len(Positions(s, selection)) : Positions(s, selection)[k] \in 1..Len(d.entries[s])
<1> DEFINE at == Positions(s, selection)
<1>1. \A k \in 1..Len(at) : \E i \in 1..Len(selection) : selection[i] = <<s, at[k]>>
  BY PositionsThere
<1> HIDE DEF at
<1>2. ASSUME NEW k \in 1..Len(at) PROVE at[k] \in 1..Len(d.entries[s])
  <2>1. PICK i \in 1..Len(selection) : selection[i] = <<s, at[k]>>
    BY <1>1
  <2>2. selection[i][1] = s /\ selection[i][2] = at[k]
    BY <2>1
  <2> QED
    BY <2>2
<1>3. PickedEntries(plan, s, selection) = [k \in 1..Len(at) |-> d.entries[s][at[k]]]
  BY <1>2 DEF PickedEntries, at
<1> QED
  BY <1>2, <1>3 DEF at, PickedOf

LEMMA PickedEntriesThere ==
  ASSUME NEW d, NEW plan, DraftShape(d), NEW selection \in Seq(Pick), NEW s \in SectionName,
         \A i \in 1..Len(d.entries[s]) : plan.entries[s][i].entry = d.entries[s][i],
         \A k \in 1..Len(selection) : selection[k][1] = s => selection[k][2] \in 1..Len(d.entries[s])
  PROVE  LET new == PickedEntries(plan, s, selection) IN
         /\ new \in Seq(RawEntry)
         /\ \A k \in 1..Len(new) : \E i \in 1..Len(selection) :
              selection[i][1] = s /\ new[k] = d.entries[s][selection[i][2]]
         /\ \A i \in 1..Len(selection) : selection[i][1] = s =>
              \E k \in 1..Len(new) : new[k] = d.entries[s][selection[i][2]]
<1> DEFINE at == Positions(s, selection)
           new == PickedEntries(plan, s, selection)
<1>1. /\ at \in Seq(Int)
      /\ \A k \in 1..Len(at) : \E i \in 1..Len(selection) : selection[i] = <<s, at[k]>>
      /\ \A i \in 1..Len(selection) : selection[i][1] = s => \E k \in 1..Len(at) : at[k] = selection[i][2]
  BY PositionsThere
<1>2. /\ new = [k \in 1..Len(at) |-> d.entries[s][at[k]]]
      /\ \A k \in 1..Len(at) : at[k] \in 1..Len(d.entries[s])
  BY PickedEntriesAre DEF PickedOf
<1> HIDE DEF at, new
<1>3. \A i \in 1..Len(d.entries[s]) : d.entries[s][i] \in RawEntry
  BY DEF DraftShape
<1>4. Len(at) \in Nat
  BY <1>1
<1>5. new \in Seq(RawEntry) /\ Len(new) = Len(at)
  BY <1>2, <1>3, <1>4
<1>6. \A k \in 1..Len(at) : new[k] = d.entries[s][at[k]]
  BY <1>2
<1>7. ASSUME NEW k \in 1..Len(at)
      PROVE  \E i \in 1..Len(selection) : selection[i][1] = s /\ new[k] = d.entries[s][selection[i][2]]
  <2>1. PICK i \in 1..Len(selection) : selection[i] = <<s, at[k]>>
    BY <1>1
  <2>2. selection[i][1] = s /\ selection[i][2] = at[k]
    BY <2>1
  <2> QED
    BY <1>6, <2>2
<1>8. ASSUME NEW i \in 1..Len(selection), selection[i][1] = s
      PROVE  \E k \in 1..Len(at) : new[k] = d.entries[s][selection[i][2]]
  <2>1. PICK k \in 1..Len(at) : at[k] = selection[i][2]
    BY <1>1, <1>8
  <2> QED
    BY <1>6, <2>1
<1>9. /\ \A k \in 1..Len(new) : \E i \in 1..Len(selection) :
           selection[i][1] = s /\ new[k] = d.entries[s][selection[i][2]]
      /\ \A i \in 1..Len(selection) : selection[i][1] = s =>
           \E k \in 1..Len(new) : new[k] = d.entries[s][selection[i][2]]
  BY <1>5, <1>7, <1>8
<1> QED
  BY <1>5, <1>9 DEF new

(* What a selection does to a profile.                                      *)
LEMMA AppliedShape ==
  ASSUME NEW d, NEW h, DraftShape(d), HeldShape(h), NEW selection \in Seq(Pick),
         \A k \in 1..Len(selection) : Open(d, h, selection[k])
  PROVE  /\ \A s \in SectionName : \A k \in 1..Len(selection) :
              selection[k][1] = s => selection[k][2] \in 1..Len(d.entries[s])
         /\ HeldShape(Applied(ApplyPlan(d, h), selection, h))
<1>1. ASSUME NEW s \in SectionName, NEW k \in 1..Len(selection), selection[k][1] = s
      PROVE  selection[k][2] \in 1..Len(d.entries[s])
  <2>1. Open(d, h, selection[k])
    OBVIOUS
  <2>2. s \notin ScalarField /\ s \notin TokenField
    BY DEF SectionName, ScalarField, TokenField
  <2>3. \A f : selection[k] = <<f, 0>> => f = s
    BY <1>1
  <2>4. PICK t \in SectionName : \E i \in 1..Len(d.entries[t]) : selection[k] = <<t, i>>
    BY <2>1, <2>2, <2>3 DEF Open
  <2>5. PICK i \in 1..Len(d.entries[t]) : selection[k] = <<t, i>>
    BY <2>4
  <2>6. t = s /\ selection[k][2] = i
    BY <2>5, <1>1
  <2> QED
    BY <2>5, <2>6
<1>2. PICK plan : plan = ApplyPlan(d, h)
  OBVIOUS
<1>3. ASSUME NEW f \in TokenField PROVE AppliedItems(plan, selection, h)[f] \in Seq(Texts)
  <2>1. h.lists[f] \in Seq(Texts) /\ d.lists[f] \in Seq(Texts)
    BY DEF HeldShape, ProfileRecord, DraftShape
  <2>2. plan.lists[f].add = ItemsToAdd(Tokens(h.lists[f]), d.lists[f])
    BY <1>2, PlanShows
  <2>3. plan.lists[f].add \in Seq(Texts)
    BY <2>1, <2>2, ItemsToAddThere
  <2>4. h.lists[f] \o plan.lists[f].add \in Seq(Texts)
    BY <2>1, <2>3
  <2> QED
    BY <2>1, <2>4 DEF AppliedItems
<1>4. ASSUME NEW s \in SectionName PROVE h.entries[s] \o PickedEntries(plan, s, selection) \in Seq(RawEntry)
  <2>1. PickedEntries(plan, s, selection) \in Seq(RawEntry)
    <3>1. \A i \in 1..Len(d.entries[s]) : plan.entries[s][i].entry = d.entries[s][i]
      BY <1>2, PlanShows
    <3> QED
      BY <1>1, <3>1, PickedEntriesThere
  <2>2. h.entries[s] \in Seq(RawEntry)
    BY DEF HeldShape, ProfileRecord
  <2> QED
    BY <2>1, <2>2
<1>6. ASSUME NEW f \in ScalarField PROVE AppliedScalars(plan, selection, h)[f] \in Texts \cup {Absent}
  <2>1. plan.scalars[f].suggested = d.scalars[f]
    BY <1>2, PlanShows
  <2>2. d.scalars[f] \in Texts \cup {Absent} /\ h.scalars[f] \in Texts \cup {Absent}
    BY DEF DraftShape, HeldShape, ProfileRecord
  <2> QED
    BY <2>1, <2>2 DEF AppliedScalars
<1>7. /\ AppliedScalars(plan, selection, h) = [f \in ScalarField |-> AppliedScalars(plan, selection, h)[f]]
      /\ AppliedItems(plan, selection, h) = [f \in TokenField |-> AppliedItems(plan, selection, h)[f]]
  BY DEF AppliedScalars, AppliedItems
<1>8. /\ AppliedScalars(plan, selection, h) \in [ScalarField -> Texts \cup {Absent}]
      /\ AppliedItems(plan, selection, h) \in [TokenField -> Seq(Texts)]
  BY <1>3, <1>6, <1>7
<1>5. HeldShape(Applied(plan, selection, h))
  BY <1>4, <1>8 DEF HeldShape, ProfileRecord, Applied
<1> QED
  BY <1>1, <1>2, <1>5

LEMMA ScalarsLeft ==
  ASSUME NEW d, NEW h, DraftShape(d), NEW selection, NEW f \in ScalarField
  PROVE  LET after == Applied(ApplyPlan(d, h), selection, h) IN
         ScalarOpen(d, after, f) <=> ScalarOpen(d, h, f) /\ ~Picked(f, selection)
<1>1. PICK after : after = Applied(ApplyPlan(d, h), selection, h)
  OBVIOUS
<1>2. after.scalars[f] = IF Picked(f, selection) THEN d.scalars[f] ELSE h.scalars[f]
  BY <1>1, PlanShows DEF Applied, AppliedScalars
<1> QED
  BY <1>1, <1>2 DEF ScalarOpen

LEMMA ConcatThere ==
  ASSUME NEW S, NEW one \in Seq(S), NEW two \in Seq(S)
  PROVE  /\ one \o two \in Seq(S) /\ Len(one \o two) = Len(one) + Len(two)
         /\ Len(one) \in Nat /\ Len(two) \in Nat
         /\ \A j \in 1..Len(one) : (one \o two)[j] = one[j]
         /\ \A k \in 1..Len(two) : (one \o two)[Len(one) + k] = two[k]
         /\ IsPrefix(one, one \o two) /\ IsPrefix(one, one)
<1>1. Len(one) \in Nat /\ Len(two) \in Nat
  OBVIOUS
<1>2. PICK both : both = one \o two
  OBVIOUS
<1>3. /\ both \in Seq(S) /\ Len(both) = Len(one) + Len(two)
      /\ \A i \in 1..(Len(one) + Len(two)) : both[i] = IF i <= Len(one) THEN one[i] ELSE two[i - Len(one)]
  BY <1>2, ConcatProperties
<1>4. ASSUME NEW j \in 1..Len(one) PROVE both[j] = one[j]
  BY <1>1, <1>3
<1>5. ASSUME NEW k \in 1..Len(two) PROVE both[Len(one) + k] = two[k]
  <2>1. /\ Len(one) + k \in 1..(Len(one) + Len(two))
        /\ ~(Len(one) + k <= Len(one)) /\ Len(one) + k - Len(one) = k
    BY <1>1
  <2> QED
    BY <1>3, <2>1
<1>6. SubSeq(one, 1, Len(one)) = [i \in 1..Len(one) |-> one[i]]
  BY <1>1, SubSeqProperties
<1>7. SubSeq(both, 1, Len(one)) = [i \in 1..Len(one) |-> both[i]]
  BY <1>1, <1>3, SubSeqProperties
<1>8. IsPrefix(one, both) /\ IsPrefix(one, one)
  BY <1>1, <1>3, <1>4, <1>6, <1>7 DEF IsPrefix
<1> QED
  BY <1>1, <1>2, <1>3, <1>4, <1>5, <1>8

LEMMA ListsLeft ==
  ASSUME NEW d, NEW h, DraftShape(d), HeldShape(h), NEW selection, NEW f \in TokenField
  PROVE  LET after == Applied(ApplyPlan(d, h), selection, h) IN
         /\ ListOpen(d, after, f) <=> ListOpen(d, h, f) /\ ~Picked(f, selection)
         /\ IsPrefix(h.lists[f], after.lists[f])
<1>1. PICK after : after = Applied(ApplyPlan(d, h), selection, h)
  OBVIOUS
<1>2. PICK add : add = ItemsToAdd(Tokens(h.lists[f]), d.lists[f])
  OBVIOUS
<1>3. h.lists[f] \in Seq(Texts) /\ d.lists[f] \in Seq(Texts)
  BY DEF HeldShape, ProfileRecord, DraftShape
<1>4. after.lists[f] = IF Picked(f, selection) THEN h.lists[f] \o add ELSE h.lists[f]
  BY <1>1, <1>2, PlanShows DEF Applied, AppliedItems
<1>5. /\ add \in Seq(Texts)
      /\ \A i \in 1..Len(d.lists[f]) :
           HasKey(h.lists[f], d.lists[f][i]) \/ \E k \in 1..Len(add) : add[k] = d.lists[f][i]
  BY <1>2, <1>3, ItemsToAddThere
<1>6. PICK both : both = h.lists[f] \o add
  OBVIOUS
<1>7. /\ both \in Seq(Texts) /\ Len(both) = Len(h.lists[f]) + Len(add)
      /\ Len(h.lists[f]) \in Nat /\ Len(add) \in Nat
      /\ \A j \in 1..Len(h.lists[f]) : both[j] = h.lists[f][j]
      /\ \A k \in 1..Len(add) : both[Len(h.lists[f]) + k] = add[k]
  BY <1>3, <1>5, <1>6, ConcatThere
<1>8. ASSUME NEW i \in 1..Len(d.lists[f]) PROVE HasKey(both, d.lists[f][i])
  <2>1. CASE HasKey(h.lists[f], d.lists[f][i])
    <3>1. PICK j \in 1..Len(h.lists[f]) : /\ Clean(h.lists[f][j]) # Absent
                                          /\ FoldKey(h.lists[f][j]) = FoldKey(d.lists[f][i])
      BY <2>1 DEF HasKey
    <3>2. j \in 1..Len(both) /\ both[j] = h.lists[f][j]
      BY <1>7
    <3> QED
      BY <3>1, <3>2 DEF HasKey
  <2>2. CASE \E k \in 1..Len(add) : add[k] = d.lists[f][i]
    <3>1. PICK k \in 1..Len(add) : add[k] = d.lists[f][i]
      BY <2>2
    <3>2. Len(h.lists[f]) + k \in 1..Len(both) /\ both[Len(h.lists[f]) + k] = d.lists[f][i]
      BY <1>7, <3>1
    <3>3. Clean(d.lists[f][i]) # Absent
      BY DEF DraftShape
    <3> QED
      BY <3>2, <3>3 DEF HasKey
  <2> QED
    BY <1>5, <2>1, <2>2
<1>9. ListOpen(d, after, f) <=> ListOpen(d, h, f) /\ ~Picked(f, selection)
  BY <1>4, <1>6, <1>8 DEF ListOpen
<1>10. IsPrefix(h.lists[f], both) /\ IsPrefix(h.lists[f], h.lists[f])
  BY <1>3, <1>5, <1>6, ConcatThere
<1> QED
  BY <1>1, <1>4, <1>6, <1>9, <1>10

LEMMA EntriesLeft ==
  ASSUME NEW d, NEW h, DraftShape(d), HeldShape(h), NEW selection \in Seq(Pick), NEW s \in SectionName,
         \A k \in 1..Len(selection) : selection[k][1] = s => selection[k][2] \in 1..Len(d.entries[s]),
         NEW i \in 1..Len(d.entries[s])
  PROVE  LET after == Applied(ApplyPlan(d, h), selection, h) IN
         /\ EntryOpen(d, after, s, i) => EntryOpen(d, h, s, i)
         /\ EntryOpen(d, after, s, i) => \A k \in 1..Len(selection) : selection[k] # <<s, i>>
         /\ EntryOpen(d, h, s, i) /\ ~EntryOpen(d, after, s, i) =>
              \E k \in 1..Len(selection) :
                 /\ selection[k][1] = s
                 /\ EntryKey(s, d.entries[s][selection[k][2]]) = EntryKey(s, d.entries[s][i])
<1>1. PICK after : after = Applied(ApplyPlan(d, h), selection, h)
  OBVIOUS
<1>2. PICK new : new = PickedEntries(ApplyPlan(d, h), s, selection)
  OBVIOUS
<1>3. PICK old : old = h.entries[s]
  OBVIOUS
<1>4. PICK both : both = old \o new
  OBVIOUS
<1>5. after.entries[s] = both
  BY <1>1, <1>2, <1>3, <1>4 DEF Applied
<1>6. /\ new \in Seq(RawEntry)
      /\ \A k \in 1..Len(new) : \E m \in 1..Len(selection) :
           selection[m][1] = s /\ new[k] = d.entries[s][selection[m][2]]
      /\ \A m \in 1..Len(selection) : selection[m][1] = s =>
           \E k \in 1..Len(new) : new[k] = d.entries[s][selection[m][2]]
  <2> DEFINE n == PickedEntries(ApplyPlan(d, h), s, selection)
  <2>1. /\ n \in Seq(RawEntry)
        /\ \A k \in 1..Len(n) : \E m \in 1..Len(selection) :
             selection[m][1] = s /\ n[k] = d.entries[s][selection[m][2]]
        /\ \A m \in 1..Len(selection) : selection[m][1] = s =>
             \E k \in 1..Len(n) : n[k] = d.entries[s][selection[m][2]]
    <3>1. \A k \in 1..Len(d.entries[s]) : ApplyPlan(d, h).entries[s][k].entry = d.entries[s][k]
      BY PlanShows
    <3> QED
      BY <3>1, PickedEntriesThere
  <2>2. n = new
    BY <1>2
  <2> HIDE DEF n
  <2> QED
    BY <2>1, <2>2
<1>7. old \in Seq(RawEntry)
  BY <1>3 DEF HeldShape, ProfileRecord
<1>8. /\ Len(both) = Len(old) + Len(new) /\ Len(old) \in Nat /\ Len(new) \in Nat
      /\ \A j \in 1..Len(old) : both[j] = old[j]
      /\ \A k \in 1..Len(new) : both[Len(old) + k] = new[k]
  BY <1>4, <1>6, <1>7, ConcatThere
<1>9. PICK key : key = EntryKey(s, d.entries[s][i])
  OBVIOUS
<1>10. EntryOpen(d, h, s, i) <=> \A j \in 1..Len(old) : EntryKey(s, old[j]) # key
  BY <1>3, <1>9 DEF EntryOpen
<1>11. EntryOpen(d, after, s, i) <=> \A j \in 1..Len(both) : EntryKey(s, both[j]) # key
  BY <1>5, <1>9 DEF EntryOpen
<1>12. ASSUME EntryOpen(d, after, s, i), NEW j \in 1..Len(old) PROVE EntryKey(s, old[j]) # key
  <2>1. j \in 1..Len(both) /\ both[j] = old[j]
    BY <1>8
  <2> QED
    BY <2>1, <1>11, <1>12
<1>13. ASSUME EntryOpen(d, after, s, i), NEW k \in 1..Len(new) PROVE EntryKey(s, new[k]) # key
  <2>1. Len(old) + k \in 1..Len(both) /\ both[Len(old) + k] = new[k]
    BY <1>8
  <2> QED
    BY <2>1, <1>11, <1>13
<1>14. ASSUME EntryOpen(d, after, s, i), NEW m \in 1..Len(selection), selection[m] = <<s, i>> PROVE FALSE
  <2>1. selection[m][1] = s /\ selection[m][2] = i
    BY <1>14
  <2>2. PICK k \in 1..Len(new) : new[k] = d.entries[s][i]
    BY <2>1, <1>6
  <2> QED
    BY <2>2, <1>9, <1>13, <1>14
<1>15. ASSUME EntryOpen(d, h, s, i), ~EntryOpen(d, after, s, i)
       PROVE  \E k \in 1..Len(selection) :
                 selection[k][1] = s /\ EntryKey(s, d.entries[s][selection[k][2]]) = key
  <2>1. PICK j \in 1..Len(both) : EntryKey(s, both[j]) = key
    BY <1>11, <1>15
  <2>2. j \notin 1..Len(old)
    BY <2>1, <1>8, <1>10, <1>15
  <2>3. PICK k : k = j - Len(old)
    OBVIOUS
  <2>4. k \in 1..Len(new) /\ j = Len(old) + k
    BY <2>2, <2>3, <1>8
  <2>5. EntryKey(s, new[k]) = key
    BY <2>1, <2>4, <1>8
  <2>6. PICK m \in 1..Len(selection) : selection[m][1] = s /\ new[k] = d.entries[s][selection[m][2]]
    BY <2>4, <1>6
  <2> QED
    BY <2>5, <2>6
<1> QED
  BY <1>1, <1>9, <1>10, <1>12, <1>14, <1>15

(* What remains of a plan after a selection of its operations.              *)
LEMMA ApplyLeaves ==
  ASSUME NEW d, NEW h, DraftShape(d), HeldShape(h), NEW selection \in Seq(Pick),
         Applicable(Actionable(ApplyPlan(d, h)), selection)
  PROVE  LET before == ApplyPlan(d, h)
             after == Applied(before, selection, h)
             left == Actionable(ApplyPlan(d, after))
         IN /\ left \subseteq Actionable(before)
            /\ \A k \in 1..Len(selection) : selection[k] \notin left
            /\ \A op \in Actionable(before) \ left : PickedToo(before, selection, op)
<1>1. PICK before : before = ApplyPlan(d, h)
  OBVIOUS
<1>2. PICK after : after = Applied(before, selection, h)
  OBVIOUS
<1>3. \A op : op \in Actionable(before) <=> Open(d, h, op)
  BY <1>1, ActionableIsOpen
<1>4. \A k \in 1..Len(selection) : Open(d, h, selection[k])
  BY <1>1, <1>3 DEF Applicable
<1>5. /\ HeldShape(after)
      /\ \A s \in SectionName : \A k \in 1..Len(selection) :
           selection[k][1] = s => selection[k][2] \in 1..Len(d.entries[s])
  BY <1>1, <1>2, <1>4, AppliedShape
<1>6. \A op : op \in Actionable(ApplyPlan(d, after)) <=> Open(d, after, op)
  BY <1>5, ActionableIsOpen
<1>7. \A f \in ScalarField : ScalarOpen(d, after, f) <=> ScalarOpen(d, h, f) /\ ~Picked(f, selection)
  BY <1>1, <1>2, ScalarsLeft
<1>8. \A f \in TokenField : ListOpen(d, after, f) <=> ListOpen(d, h, f) /\ ~Picked(f, selection)
  BY <1>1, <1>2, ListsLeft
<1>9. \A s \in SectionName : \A i \in 1..Len(d.entries[s]) :
         /\ EntryOpen(d, after, s, i) => EntryOpen(d, h, s, i)
         /\ EntryOpen(d, after, s, i) => \A k \in 1..Len(selection) : selection[k] # <<s, i>>
         /\ EntryOpen(d, h, s, i) /\ ~EntryOpen(d, after, s, i) =>
              \E k \in 1..Len(selection) :
                 /\ selection[k][1] = s
                 /\ EntryKey(s, d.entries[s][selection[k][2]]) = EntryKey(s, d.entries[s][i])
  BY <1>1, <1>2, <1>5, EntriesLeft
<1>10. ASSUME NEW op, Open(d, after, op) PROVE Open(d, h, op) /\ \A k \in 1..Len(selection) : selection[k] # op
  <2>1. CASE \E f \in ScalarField : op = <<f, 0>> /\ ScalarOpen(d, after, f)
    BY <2>1, <1>7 DEF Open, Picked
  <2>2. CASE \E f \in TokenField : op = <<f, 0>> /\ ListOpen(d, after, f)
    BY <2>2, <1>8 DEF Open, Picked
  <2>3. CASE \E s \in SectionName : \E i \in 1..Len(d.entries[s]) : op = <<s, i>> /\ EntryOpen(d, after, s, i)
    BY <2>3, <1>9 DEF Open
  <2> QED
    BY <1>10, <2>1, <2>2, <2>3 DEF Open
<1>11. ASSUME NEW op, Open(d, h, op), ~Open(d, after, op) PROVE PickedToo(before, selection, op)
  <2>1. CASE \E f \in ScalarField : op = <<f, 0>> /\ ScalarOpen(d, h, f)
    BY <2>1, <1>7, <1>11 DEF Open, Picked, PickedToo
  <2>2. CASE \E f \in TokenField : op = <<f, 0>> /\ ListOpen(d, h, f)
    BY <2>2, <1>8, <1>11 DEF Open, Picked, PickedToo
  <2>3. CASE \E s \in SectionName : \E i \in 1..Len(d.entries[s]) : op = <<s, i>> /\ EntryOpen(d, h, s, i)
    <3>0. PICK s \in SectionName : \E i \in 1..Len(d.entries[s]) : op = <<s, i>> /\ EntryOpen(d, h, s, i)
      BY <2>3
    <3>1. PICK i \in 1..Len(d.entries[s]) : op = <<s, i>> /\ EntryOpen(d, h, s, i)
      BY <3>0
    <3>2. ~EntryOpen(d, after, s, i)
      BY <3>1, <1>11 DEF Open
    <3>3. PICK k \in 1..Len(selection) :
             /\ selection[k][1] = s
             /\ EntryKey(s, d.entries[s][selection[k][2]]) = EntryKey(s, d.entries[s][i])
      BY <3>1, <3>2, <1>9
    <3>6. \A m \in 1..Len(d.entries[s]) : before.entries[s][m].entry = d.entries[s][m]
      <4>1. \A r \in SectionName : \A m \in 1..Len(d.entries[r]) :
               before.entries[r][m].entry = d.entries[r][m]
        BY <1>1, PlanShows
      <4> QED
        BY <4>1
    <3>7. selection[k][2] \in 1..Len(d.entries[s])
      BY <3>3, <1>5
    <3>4. /\ before.entries[s][selection[k][2]].entry = d.entries[s][selection[k][2]]
          /\ before.entries[s][i].entry = d.entries[s][i]
      BY <3>6, <3>7
    <3>5. op[1] = s /\ op[2] = i
      BY <3>1
    <3> QED
      BY <3>3, <3>4, <3>5 DEF PickedToo
  <2> QED
    BY <1>11, <2>1, <2>2, <2>3 DEF Open
<1> QED
  BY <1>1, <1>2, <1>3, <1>6, <1>10, <1>11

---------------------------------------------------------------------------
(* The state of a review                                                    *)

(* A page shows the draft of its run, whatever the profile was then.        *)
Shows(plan, d) ==
  /\ \A f \in ScalarField : plan.scalars[f].suggested = d.scalars[f]
  /\ \A s \in SectionName : /\ Len(plan.entries[s]) = Len(d.entries[s])
                            /\ \A i \in 1..Len(d.entries[s]) : plan.entries[s][i].entry = d.entries[s][i]
IsSequence(q) == Len(q) \in Nat /\ q = [i \in 1..Len(q) |-> q[i]]
PageShows == page # NoPage => page.run \in 1..Len(shelf) /\ Shows(page.plan, RunDraft(page.run))
ReviewInv ==
  /\ shelf \in Seq(Upload) /\ IsSequence(audits)
  /\ HeldShape(held)
  /\ PageShows

LEMMA SequenceGrows ==
  ASSUME NEW q, IsSequence(q), NEW e
  PROVE  /\ IsSequence(Append(q, e))
         /\ Append(q, e) # q
         /\ Append(q, e)[Len(Append(q, e))] = e
<1> DEFINE S == {q[i] : i \in 1..Len(q)} \cup {e}
<1>1. q \in Seq(S)
  BY DEF IsSequence
<1>2. e \in S
  OBVIOUS
<1> HIDE DEF S
<1>3. /\ Append(q, e) \in Seq(S) /\ Len(Append(q, e)) = Len(q) + 1
      /\ Append(q, e)[Len(q) + 1] = e
  BY <1>1, <1>2, AppendProperties
<1>4. Len(q) \in Nat
  BY <1>1
<1>5. Append(q, e) = [i \in 1..Len(Append(q, e)) |-> Append(q, e)[i]]
  BY <1>3, LenProperties
<1>6. PICK b : b = Append(q, e)
  OBVIOUS
<1>7. IsSequence(b)
  BY <1>3, <1>4, <1>5, <1>6 DEF IsSequence
<1>8. Len(b) # Len(q) /\ b[Len(b)] = e
  BY <1>3, <1>4, <1>6
<1> QED
  BY <1>6, <1>7, <1>8

LEMMA RunDrafts ==
  ASSUME shelf \in Seq(Upload), NEW r \in 1..Len(shelf)
  PROVE  DraftShape(RunDraft(r))
<1>1. shelf[r] \in Upload
  OBVIOUS
<1>2. DraftShape(BuildDraft(shelf[r].raw))
  BY <1>1, DraftTyped
<1> QED
  BY <1>2 DEF RunDraft

LEMMA ReviewStarts == ReviewInit => ReviewInv
<1> SUFFICES ASSUME ReviewInit PROVE ReviewInv
  OBVIOUS
<1>1. HeldShape(held)
  BY DEF ReviewInit, HeldShape, ProfileRecord, EmptyProfile
<1>2. shelf \in Seq(Upload) /\ IsSequence(audits)
  BY DEF ReviewInit, IsSequence
<1> QED
  BY <1>1, <1>2 DEF ReviewInit, ReviewInv, PageShows

LEMMA PageKept ==
  ASSUME PageShows, page' = page, Len(shelf) \in Nat, Len(shelf') \in Nat, Len(shelf) <= Len(shelf'),
         \A r \in 1..Len(shelf) : shelf'[r] = shelf[r]
  PROVE  PageShows'
<1>1. PICK p : p = page
  OBVIOUS
<1> SUFFICES ASSUME p # NoPage PROVE PageShows'
  BY <1>1 DEF PageShows
<1>2. p.run \in 1..Len(shelf) /\ Shows(p.plan, RunDraft(p.run))
  BY <1>1 DEF PageShows
<1>3. PICK d : d = RunDraft(p.run)
  OBVIOUS
<1>4. page'.run \in 1..Len(shelf') /\ page'.plan = p.plan
  BY <1>1, <1>2
<1>5. RunDraft(page.run)' = d
  BY <1>1, <1>2, <1>3 DEF RunDraft
<1>6. Shows(page.plan, RunDraft(page.run))'
  BY <1>2, <1>3, <1>4, <1>5 DEF Shows
<1> QED
  BY <1>4, <1>6 DEF PageShows

LEMMA ReceivedKeeps == ASSUME ReviewInv, ReceiveUpload PROVE ReviewInv'
<1>1. PICK u \in Upload :
        /\ shelf' = Append(shelf, u)
        /\ held' = CASE u.use = "pivot" -> Pivoted(BuildDraft(u.raw), held)
                     [] u.use = "replace" -> Replaced(BuildDraft(u.raw), held)
                     [] OTHER -> held
  BY DEF ReceiveUpload
<1>2. page' = page /\ audits' = audits
  BY DEF ReceiveUpload
<1>3. /\ shelf' \in Seq(Upload) /\ Len(shelf') = Len(shelf) + 1 /\ Len(shelf) \in Nat
      /\ \A r \in 1..Len(shelf) : shelf'[r] = shelf[r]
  BY <1>1, AppendProperties DEF ReviewInv
<1>5. PICK d : d = BuildDraft(u.raw)
  OBVIOUS
<1>6. DraftShape(d)
  BY <1>5, DraftTyped
<1>7. PICK h : h = held
  OBVIOUS
<1>8. HeldShape(h)
  BY <1>7 DEF ReviewInv
<1>9. HeldShape(Pivoted(d, h))
  BY <1>6, <1>8 DEF HeldShape, ProfileRecord, DraftShape, Pivoted, SectionOr, Or
<1>10. HeldShape(Replaced(d, h))
  BY <1>6, <1>8 DEF HeldShape, ProfileRecord, DraftShape, Replaced, SectionOr, Or
<1>11. held' = Pivoted(d, h) \/ held' = Replaced(d, h) \/ held' = h
  BY <1>1, <1>5, <1>7
<1>12. HeldShape(held)'
  BY <1>8, <1>9, <1>10, <1>11
<1>13. PageShows'
  BY <1>2, <1>3, PageKept DEF ReviewInv
<1> QED
  BY <1>2, <1>3, <1>12, <1>13 DEF ReviewInv

LEMMA ViewedKeeps == ASSUME ReviewInv, ViewPlan PROVE ReviewInv'
<1>1. /\ shelf \in Seq(Upload) /\ shelf # <<>> /\ shelf' = shelf
      /\ held' = held /\ audits' = audits
      /\ page' = [run |-> Len(shelf), plan |-> ApplyPlan(RunDraft(Len(shelf)), held)]
  BY DEF ViewPlan, ReviewInv
<1>2. PICK r : r = Len(shelf)
  OBVIOUS
<1>3. r \in 1..Len(shelf)
  BY <1>1, <1>2
<1>4. PICK d : d = RunDraft(r)
  OBVIOUS
<1>5. DraftShape(d)
  BY <1>1, <1>3, <1>4, RunDrafts
<1>6. PICK h : h = held
  OBVIOUS
<1>7. page' = [run |-> r, plan |-> ApplyPlan(d, h)]
  BY <1>1, <1>2, <1>4, <1>6
<1>8. Shows(ApplyPlan(d, h), d)
  BY <1>5, PlanShows DEF Shows
<1>9. RunDraft(page.run)' = d
  BY <1>1, <1>4, <1>7 DEF RunDraft
<1>10. PageShows'
  BY <1>1, <1>3, <1>7, <1>8, <1>9 DEF PageShows, Shows
<1> QED
  BY <1>1, <1>10 DEF ReviewInv, IsSequence, HeldShape

LEMMA EditedKeeps == ASSUME ReviewInv, EditProfile PROVE ReviewInv'
<1>1. shelf' = shelf /\ page' = page /\ audits' = audits
  BY DEF EditProfile
<1>2. PICK h : h = held
  OBVIOUS
<1>3. HeldShape(h)
  BY <1>2 DEF ReviewInv
<1>4. \/ \E f \in ScalarField : held' = [h EXCEPT !.scalars[f] = Absent]
      \/ \E f \in TokenField : h.lists[f] # <<>> /\ held' = [h EXCEPT !.lists[f] = Tail(@)]
      \/ \E s \in SectionName : h.entries[s] # <<>> /\ held' = [h EXCEPT !.entries[s] = Tail(@)]
  BY <1>2 DEF EditProfile
<1>5. ASSUME NEW f \in ScalarField PROVE HeldShape([h EXCEPT !.scalars[f] = Absent])
  BY <1>3 DEF HeldShape, ProfileRecord
<1>6. ASSUME NEW f \in TokenField, h.lists[f] # <<>> PROVE HeldShape([h EXCEPT !.lists[f] = Tail(@)])
  <2>1. h.lists[f] \in Seq(Texts)
    BY <1>3 DEF HeldShape, ProfileRecord
  <2>2. Tail(h.lists[f]) \in Seq(Texts)
    BY <2>1, <1>6, HeadTailProperties
  <2> QED
    BY <2>2, <1>3 DEF HeldShape, ProfileRecord
<1>7. ASSUME NEW s \in SectionName, h.entries[s] # <<>> PROVE HeldShape([h EXCEPT !.entries[s] = Tail(@)])
  <2>1. h.entries[s] \in Seq(RawEntry)
    BY <1>3 DEF HeldShape, ProfileRecord
  <2>2. Tail(h.entries[s]) \in Seq(RawEntry)
    BY <2>1, <1>7, HeadTailProperties
  <2> QED
    BY <2>2, <1>3 DEF HeldShape, ProfileRecord
<1>8. HeldShape(held)'
  BY <1>4, <1>5, <1>6, <1>7
<1>9. PageShows'
  BY <1>1 DEF ReviewInv, PageShows, Shows, RunDraft
<1> QED
  BY <1>1, <1>8, <1>9 DEF ReviewInv, IsSequence

(* A selection is applied to the draft of the page and the profile of now.  *)
LEMMA SelectionApplies ==
  ASSUME ReviewInv, NEW acknowledged \in BOOLEAN, ApplySelectedOperations(acknowledged)
  PROVE  /\ ReviewInv'
         /\ Applying /\ ShownIsApplied /\ OthersAreLeft
<1>1. PICK r : r = page.run
  OBVIOUS
<1>2. PICK d : d = RunDraft(r)
  OBVIOUS
<1>3. PICK h : h = held
  OBVIOUS
<1>4. PICK plan : plan = ApplyPlan(d, h)
  OBVIOUS
<1>5. page # NoPage /\ shelf' = shelf /\ page' = page
  BY DEF ApplySelectedOperations
<1>6. PICK n \in 1..MaxPicks : \E picks \in [1..n -> Pick] :
        LET selection == Selection(picks)
            after == Applied(plan, selection, h)
            remaining == Cardinality(Actionable(ApplyPlan(d, after)))
        IN /\ Applicable(Actionable(plan), selection)
           /\ held' = after
           /\ audits' = Append(audits, [run |-> r, picks |-> selection, remaining |-> remaining])
  BY <1>1, <1>2, <1>3, <1>4 DEF ApplySelectedOperations
<1>7. PICK picks \in [1..n -> Pick] :
        LET selection == Selection(picks)
            after == Applied(plan, selection, h)
            remaining == Cardinality(Actionable(ApplyPlan(d, after)))
        IN /\ Applicable(Actionable(plan), selection)
           /\ held' = after
           /\ audits' = Append(audits, [run |-> r, picks |-> selection, remaining |-> remaining])
  BY <1>6
<1>8. PICK selection : selection = Selection(picks)
  OBVIOUS
<1>9. PICK after : after = Applied(plan, selection, h)
  OBVIOUS
<1>10. PICK remaining : remaining = Cardinality(Actionable(ApplyPlan(d, after)))
  OBVIOUS
<1>11. PICK audit : audit = [run |-> r, picks |-> selection, remaining |-> remaining]
  OBVIOUS
<1>12. Applicable(Actionable(plan), selection) /\ held' = after /\ audits' = Append(audits, audit)
  BY <1>7, <1>8, <1>9, <1>10, <1>11
<1>13. selection \in Seq(Pick)
  <2> DEFINE at == {i \in 1..Len(picks) : \A j \in 1..i-1 : picks[j] # picks[i]}
  <2>1. picks \in Seq(Pick)
    BY ReviewAssumption
  <2>2. at \in SUBSET (1..Len(picks)) /\ selection = ItemsAt(picks, at)
    BY <1>8 DEF Selection
  <2> HIDE DEF at
  <2> QED
    BY <2>1, <2>2, ItemsThere
<1>14. r \in 1..Len(shelf) /\ Shows(page.plan, d) /\ DraftShape(d) /\ HeldShape(h)
  BY <1>1, <1>2, <1>3, <1>5, RunDrafts DEF ReviewInv, PageShows
<1>15. \A k \in 1..Len(selection) : Open(d, h, selection[k])
  BY <1>4, <1>12, <1>14, ActionableIsOpen DEF Applicable
<1>16. /\ HeldShape(after)
       /\ \A s \in SectionName : \A k \in 1..Len(selection) :
            selection[k][1] = s => selection[k][2] \in 1..Len(d.entries[s])
  BY <1>4, <1>9, <1>13, <1>14, <1>15, AppliedShape
<1>17. IsSequence(audits') /\ audits' # audits /\ NewAudit = audit
  BY <1>12, SequenceGrows DEF ReviewInv, NewAudit
<1>18. PageShows'
  BY <1>5 DEF ReviewInv, PageShows, Shows, RunDraft
<1>19. ReviewInv'
  BY <1>5, <1>12, <1>16, <1>17, <1>18 DEF ReviewInv
<1>20. NewAudit.run = r /\ NewAudit.picks = selection /\ NewAudit.remaining = remaining
  BY <1>11, <1>17
<1>21. ShownIsApplied
  <2>1. ASSUME NEW k \in 1..Len(selection), selection[k][1] \in SectionName
        PROVE  selection[k][2] \in 1..Len(page.plan.entries[selection[k][1]])
    BY <2>1, <1>14, <1>16 DEF Shows
  <2>2. ASSUME NEW s \in SectionName
        PROVE  held'.entries[s] = held.entries[s] \o PickedEntries(page.plan, s, selection)
    <3>1. PICK shown : shown = page.plan
      OBVIOUS
    <3>0. \A k \in 1..Len(selection) : selection[k][1] = s => selection[k][2] \in 1..Len(d.entries[s])
      BY <1>16
    <3>2. \A i \in 1..Len(d.entries[s]) : shown.entries[s][i].entry = d.entries[s][i]
      BY <3>1, <1>14 DEF Shows
    <3>3. \A i \in 1..Len(d.entries[s]) : plan.entries[s][i].entry = d.entries[s][i]
      BY <1>4, <1>14, PlanShows
    <3>4. PickedEntries(shown, s, selection) = PickedOf(d, s, selection)
      BY <3>0, <3>2, <1>13, PickedEntriesAre
    <3>5. PickedEntries(plan, s, selection) = PickedOf(d, s, selection)
      BY <3>0, <3>3, <1>13, PickedEntriesAre
    <3>6. after.entries[s] = h.entries[s] \o PickedEntries(plan, s, selection)
      BY <1>9 DEF Applied
    <3> QED
      BY <3>1, <3>4, <3>5, <3>6, <1>3, <1>12
  <2>3. ASSUME NEW f \in ScalarField
        PROVE  held'.scalars[f] = IF Picked(f, selection) THEN page.plan.scalars[f].suggested ELSE held.scalars[f]
    <3>1. plan.scalars[f].suggested = d.scalars[f] /\ page.plan.scalars[f].suggested = d.scalars[f]
      BY <1>4, <1>14, PlanShows DEF Shows
    <3> QED
      BY <3>1, <1>3, <1>9, <1>12 DEF Applied, AppliedScalars
  <2>4. ASSUME NEW f \in TokenField PROVE IsPrefix(held.lists[f], held'.lists[f])
    BY <1>3, <1>4, <1>9, <1>12, <1>14, ListsLeft
  <2> QED
    BY <1>20, <2>1, <2>2, <2>3, <2>4 DEF ShownIsApplied
<1>22. OthersAreLeft
  <2>1. PICK left : left = Actionable(ApplyPlan(d, after))
    OBVIOUS
  <2>2. /\ left \subseteq Actionable(plan)
        /\ \A k \in 1..Len(selection) : selection[k] \notin left
        /\ \A op \in Actionable(plan) \ left : PickedToo(plan, selection, op)
    BY <2>1, <1>4, <1>9, <1>12, <1>13, <1>14, ApplyLeaves
  <2>3. remaining = Cardinality(left)
    BY <2>1, <1>10
  <2>4. Actionable(ApplyPlan(d, held')) = left
    BY <2>1, <1>12
  <2> QED
    BY <1>2, <1>3, <1>4, <1>20, <2>2, <2>3, <2>4 DEF OthersAreLeft
<1> QED
  BY <1>17, <1>19, <1>21, <1>22 DEF Applying

---------------------------------------------------------------------------
(* What a review says of a draft                                            *)

Sound(trust) == trust.level \in {"low", "medium", "high"} /\ (trust.level = "high" => trust.present)
Reviewed == ScalarField \cup TokenField \cup {"education", "experience", "languages"}

Made(trust, filled) ==
  \E level \in {"low", "medium", "high"} : \E n \in Nat :
     trust = Trust(level, n) /\ (level = "high" => n > 0) /\ (n > 0 <=> filled)

LEMMA TrustMade ==
  ASSUME NEW trust, NEW filled \in BOOLEAN, Made(trust, filled)
  PROVE  Sound(trust) /\ (trust.present <=> filled)
<1>1. PICK level \in {"low", "medium", "high"} : \E n \in Nat :
        trust = Trust(level, n) /\ (level = "high" => n > 0) /\ (n > 0 <=> filled)
  BY DEF Made
<1>2. PICK n \in Nat : trust = Trust(level, n) /\ (level = "high" => n > 0) /\ (n > 0 <=> filled)
  BY <1>1
<1>3. trust.level = level
  BY <1>2 DEF Trust
<1>4. trust.present <=> n > 0
  BY <1>2, Zenon DEF Trust
<1> QED
  BY <1>2, <1>3, <1>4, Zenon DEF Sound

LEMMA EntriesTrusted ==
  ASSUME NEW entries \in Seq(RawEntry)
  PROVE  /\ Made(EducationTrust(entries), Len(entries) > 0)
         /\ Made(ExperienceTrust(entries), Len(entries) > 0)
         /\ Made(LanguagesTrust(entries), Len(entries) > 0)
<1>1. Len(entries) \in Nat /\ (entries = <<>> <=> Len(entries) = 0)
  OBVIOUS
<1>2. Made(EducationTrust(entries), Len(entries) > 0)
  <2>1. PICK named : named = {i \in 1..Len(entries) : entries[i].second # Absent /\ (entries[i].from # Absent \/ entries[i].to # Absent)}
    OBVIOUS
  <2>2. PICK level : level = IF Cardinality(named) > 0 THEN "high" ELSE "medium"
    OBVIOUS
  <2>3. EducationTrust(entries) = IF entries = <<>> THEN Missing ELSE Trust(level, Len(entries))
    BY <2>1, <2>2 DEF EducationTrust, Satisfying
  <2>4. level \in {"high", "medium"}
    BY <2>2
  <2> QED
    BY <1>1, <2>3, <2>4 DEF Missing, Made
<1>3. Made(ExperienceTrust(entries), Len(entries) > 0)
  <2>1. PICK named : named = {i \in 1..Len(entries) : entries[i].second # Absent /\ entries[i].from # Absent}
    OBVIOUS
  <2>2. PICK level : level = IF Cardinality(named) > 0 THEN "high" ELSE "medium"
    OBVIOUS
  <2>3. ExperienceTrust(entries) = IF entries = <<>> THEN Missing ELSE Trust(level, Len(entries))
    BY <2>1, <2>2 DEF ExperienceTrust, Satisfying
  <2>4. level \in {"high", "medium"}
    BY <2>2
  <2> QED
    BY <1>1, <2>3, <2>4 DEF Missing, Made
<1>4. Made(LanguagesTrust(entries), Len(entries) > 0)
  <2>1. PICK named : named = {i \in 1..Len(entries) : entries[i].second # Absent}
    OBVIOUS
  <2>2. PICK n : n = Cardinality(named)
    OBVIOUS
  <2>3. LanguagesTrust(entries)
          = Trust(IF n >= 2 THEN "high" ELSE IF n = 1 THEN "medium" ELSE "low", Len(entries))
    BY <2>1, <2>2 DEF LanguagesTrust, Satisfying
  <2>4. Len(entries) = 0 => n = 0
    <3>1. Len(entries) = 0 => named = {}
      BY <2>1
    <3> QED
      BY <3>1, <2>2, FS_EmptySet
  <2> QED
    BY <1>1, <2>3, <2>4 DEF Made
<1> QED
  BY <1>2, <1>3, <1>4

LEMMA ListsTrusted ==
  ASSUME NEW items \in Seq(Texts)
  PROVE  /\ Made(SkillsTrust(items), Len(items) > 0)
         /\ Made(RolesTrust(items), Len(items) > 0)
         /\ Made(PlacesTrust(items), Len(items) > 0)
<1>1. Len(items) \in Nat /\ (items = <<>> <=> Len(items) = 0)
  OBVIOUS
<1>2. Made(SkillsTrust(items), Len(items) > 0)
  BY <1>1 DEF SkillsTrust, Made
<1>3. Made(RolesTrust(items), Len(items) > 0)
  BY <1>1 DEF RolesTrust, Missing, Made
<1>4. Made(PlacesTrust(items), Len(items) > 0)
  BY <1>1 DEF PlacesTrust, Missing, Made
<1> QED
  BY <1>2, <1>3, <1>4

LEMMA ScalarsTrusted ==
  \A v : /\ Made(HeadlineTrust(v), v # Absent)
         /\ Made(SummaryTrust(v), v # Absent)
         /\ Made(RemoteTrust(v), v # Absent)
BY DEF HeadlineTrust, SummaryTrust, RemoteTrust, Missing, Made

(* What a field of a draft has shows in the report of its fields.           *)
LEMMA ReportTrusted ==
  ASSUME NEW d, DraftShape(d)
  PROVE  LET report == ConfidenceReport(d) IN
         /\ DOMAIN report \ {"certificates"} = Reviewed
         /\ \A f \in Reviewed : Sound(report[f])
         /\ \A f \in ScalarField : report[f].present <=> d.scalars[f] # Absent
         /\ \A f \in TokenField : report[f].present <=> Len(d.lists[f]) > 0
         /\ \A s \in {"education", "experience", "languages"} : report[s].present <=> Len(d.entries[s]) > 0
<1>1. PICK report : report = ConfidenceReport(d)
  OBVIOUS
<1>2. /\ DOMAIN report \ {"certificates"} = Reviewed
      /\ report["headline"] = HeadlineTrust(d.scalars["headline"])
      /\ report["summary"] = SummaryTrust(d.scalars["summary"])
      /\ report["remote"] = RemoteTrust(d.scalars["remote"])
      /\ report["skills"] = SkillsTrust(d.lists["skills"])
      /\ report["roles"] = RolesTrust(d.lists["roles"])
      /\ report["places"] = PlacesTrust(d.lists["places"])
      /\ report["education"] = EducationTrust(d.entries["education"])
      /\ report["experience"] = ExperienceTrust(d.entries["experience"])
      /\ report["languages"] = LanguagesTrust(d.entries["languages"])
  BY <1>1 DEF ConfidenceReport, Reviewed, ScalarField, TokenField
<1>3. /\ \A f \in TokenField : d.lists[f] \in Seq(Texts)
      /\ \A s \in SectionName : d.entries[s] \in Seq(RawEntry)
  BY DEF DraftShape
<1>4. ASSUME NEW f \in ScalarField PROVE Sound(report[f]) /\ (report[f].present <=> d.scalars[f] # Absent)
  <2>1. Made(report[f], d.scalars[f] # Absent)
    BY <1>2, ScalarsTrusted DEF ScalarField
  <2> QED
    BY <2>1, TrustMade, Zenon
<1>5. ASSUME NEW f \in TokenField PROVE Sound(report[f]) /\ (report[f].present <=> Len(d.lists[f]) > 0)
  <2>1. PICK items : items = d.lists[f]
    OBVIOUS
  <2>2. items \in Seq(Texts)
    BY <1>3, <2>1
  <2>3. Made(report[f], Len(items) > 0)
    BY <1>2, <2>1, <2>2, ListsTrusted DEF TokenField
  <2>4. (Len(items) > 0) \in BOOLEAN
    BY <2>2
  <2>5. Sound(report[f]) /\ (report[f].present <=> Len(items) > 0)
    BY <2>3, <2>4, TrustMade, Zenon
  <2> QED
    BY <2>1, <2>5, Zenon
<1>6. ASSUME NEW s \in {"education", "experience", "languages"}
      PROVE  Sound(report[s]) /\ (report[s].present <=> Len(d.entries[s]) > 0)
  <2>1. PICK entries : entries = d.entries[s]
    OBVIOUS
  <2>2. entries \in Seq(RawEntry)
    BY <1>3, <2>1 DEF SectionName
  <2>3. Made(report[s], Len(entries) > 0)
    BY <1>2, <2>1, <2>2, EntriesTrusted
  <2>4. (Len(entries) > 0) \in BOOLEAN
    BY <2>2
  <2>5. Sound(report[s]) /\ (report[s].present <=> Len(entries) > 0)
    BY <2>3, <2>4, TrustMade, Zenon
  <2> QED
    BY <2>1, <2>5, Zenon
<1> QED
  BY <1>1, <1>2, <1>4, <1>5, <1>6 DEF Reviewed

LEMMA ReviewNames ==
  ASSUME NEW d, NEW h, DraftShape(d), HeldShape(h), NEW manual
  PROVE  LET plan == ApplyPlan(d, h)
             insights == Insights(d, manual)
         IN /\ \A op \in Actionable(plan) : op[1] \in DOMAIN insights => insights[op[1]].present
            /\ \A f \in DOMAIN insights \ FocusFields(insights) : insights[f].present
            /\ \A op \in Preselected(plan) : op[1] \in ScalarField => h.scalars[op[1]] = Absent
<1>1. PICK plan : plan = ApplyPlan(d, h)
  OBVIOUS
<1>2. PICK insights : insights = Insights(d, manual)
  OBVIOUS
<1>3. PICK report : report = ConfidenceReport(d)
  OBVIOUS
<1>4. /\ DOMAIN report \ {"certificates"} = Reviewed
      /\ \A f \in Reviewed : Sound(report[f])
      /\ \A f \in ScalarField : report[f].present <=> d.scalars[f] # Absent
      /\ \A f \in TokenField : report[f].present <=> Len(d.lists[f]) > 0
      /\ \A s \in {"education", "experience", "languages"} : report[s].present <=> Len(d.entries[s]) > 0
  BY <1>3, ReportTrusted
<1>5. /\ DOMAIN insights = Reviewed
      /\ \A f \in Reviewed : /\ insights[f].severity = Severity(report[f].level, manual)
                             /\ insights[f].present = report[f].present
  BY <1>2, <1>3, <1>4 DEF Insights
<1>6. ASSUME NEW op \in Actionable(plan), op[1] \in DOMAIN insights PROVE insights[op[1]].present
  <2>1. Open(d, h, op)
    BY <1>1, ActionableIsOpen
  <2>2. CASE \E f \in ScalarField : op = <<f, 0>> /\ ScalarOpen(d, h, f)
    BY <2>2, <1>4, <1>5, <1>6 DEF ScalarOpen
  <2>3. CASE \E f \in TokenField : op = <<f, 0>> /\ ListOpen(d, h, f)
    <3>1. PICK f \in TokenField : op = <<f, 0>> /\ ListOpen(d, h, f)
      BY <2>3
    <3>2. Len(d.lists[f]) \in Nat
      BY DEF DraftShape
    <3>3. Len(d.lists[f]) > 0
      BY <3>1, <3>2 DEF ListOpen
    <3> QED
      BY <3>1, <3>3, <1>4, <1>5, <1>6
  <2>4. CASE \E s \in SectionName : \E i \in 1..Len(d.entries[s]) : op = <<s, i>> /\ EntryOpen(d, h, s, i)
    <3>1. PICK s \in SectionName : \E i \in 1..Len(d.entries[s]) : op = <<s, i>>
      BY <2>4
    <3>2. Len(d.entries[s]) \in Nat
      BY DEF DraftShape
    <3>3. Len(d.entries[s]) > 0 /\ op[1] = s
      BY <3>1, <3>2
    <3>4. s \in {"education", "experience", "languages"}
      BY <3>3, <1>5, <1>6 DEF Reviewed, ScalarField, TokenField, SectionName
    <3> QED
      BY <3>3, <3>4, <1>4, <1>5, <1>6
  <2> QED
    BY <2>1, <2>2, <2>3, <2>4 DEF Open
<1>7. ASSUME NEW f \in DOMAIN insights \ FocusFields(insights) PROVE insights[f].present
  <2>1. f \in Reviewed /\ insights[f].severity = "safe"
    BY <1>5 DEF FocusFields
  <2>2. report[f].level = "high"
    BY <2>1, <1>4, <1>5 DEF Severity, Sound
  <2> QED
    BY <2>1, <2>2, <1>4, <1>5 DEF Sound
<1>8. ASSUME NEW op \in Preselected(plan), op[1] \in ScalarField PROVE h.scalars[op[1]] = Absent
  <2>1. plan.scalars[op[1]].action = "fill"
    BY <1>8 DEF Preselected
  <2>2. plan.scalars[op[1]] = ScalarPlan(h.scalars[op[1]], d.scalars[op[1]])
    BY <1>1, <1>8 DEF ApplyPlan
  <2> QED
    BY <2>1, <2>2 DEF ScalarPlan
<1> QED
  BY <1>1, <1>2, <1>6, <1>7, <1>8

(* The page of a review says what the CV has, and applying from it does     *)
(* what it says and leaves what it did not say: the state the steps keep is *)
(* that a page shows the draft of its run, whatever the profile was then.   *)
THEOREM ReviewTheorem == ReviewSpec => ReviewKeepsItsWord
<1>1. ReviewInit => ReviewInv
  BY ReviewStarts
<1>2. ReviewInv /\ [ReviewNext]_reviewVars => /\ ReviewInv'
                                            /\ [Applying => ShownIsApplied]_reviewVars
                                            /\ [Applying => OthersAreLeft]_reviewVars
  <2> SUFFICES ASSUME ReviewInv, [ReviewNext]_reviewVars
               PROVE  ReviewInv' /\ (Applying => ShownIsApplied /\ OthersAreLeft)
    OBVIOUS
  <2>1. CASE ReceiveUpload
    <3>1. ~Applying
      BY <2>1 DEF ReceiveUpload, Applying
    <3> QED
      BY <2>1, <3>1, ReceivedKeeps
  <2>2. CASE ViewPlan
    <3>1. ~Applying
      BY <2>2 DEF ViewPlan, Applying
    <3> QED
      BY <2>2, <3>1, ViewedKeeps
  <2>3. CASE EditProfile
    <3>1. ~Applying
      BY <2>3 DEF EditProfile, Applying
    <3> QED
      BY <2>3, <3>1, EditedKeeps
  <2>4. ASSUME NEW acknowledged \in BOOLEAN, ApplySelectedOperations(acknowledged)
        PROVE  ReviewInv' /\ (Applying => ShownIsApplied /\ OthersAreLeft)
    BY <2>4, SelectionApplies
  <2>5. CASE UNCHANGED reviewVars
    BY <2>5 DEF reviewVars, ReviewInv, PageShows, Shows, RunDraft, IsSequence, HeldShape, Applying
  <2> QED
    BY <2>1, <2>2, <2>3, <2>4, <2>5 DEF ReviewNext
<1>3. ReviewInv => ReviewNamesValues
  <2> SUFFICES ASSUME ReviewInv, NEW r \in 1..Len(shelf)
               PROVE  LET d == RunDraft(r)
                          plan == ApplyPlan(d, held)
                          insights == Insights(d, shelf[r].manual)
                      IN /\ \A op \in Actionable(plan) : op[1] \in DOMAIN insights => insights[op[1]].present
                         /\ \A f \in DOMAIN insights \ FocusFields(insights) : insights[f].present
                         /\ \A op \in Preselected(plan) : op[1] \in ScalarField => held.scalars[op[1]] = Absent
    BY DEF ReviewNamesValues
  <2>1. PICK d : d = RunDraft(r)
    OBVIOUS
  <2>2. PICK h : h = held
    OBVIOUS
  <2>3. PICK manual : manual = shelf[r].manual
    OBVIOUS
  <2>4. DraftShape(d) /\ HeldShape(h)
    BY <2>1, <2>2, RunDrafts DEF ReviewInv
  <2>5. LET plan == ApplyPlan(d, h)
            insights == Insights(d, manual)
        IN /\ \A op \in Actionable(plan) : op[1] \in DOMAIN insights => insights[op[1]].present
           /\ \A f \in DOMAIN insights \ FocusFields(insights) : insights[f].present
           /\ \A op \in Preselected(plan) : op[1] \in ScalarField => h.scalars[op[1]] = Absent
    BY <2>4, ReviewNames
  <2> QED
    BY <2>1, <2>2, <2>3, <2>5
<1> QED
  BY <1>1, <1>2, <1>3, PTL DEF ReviewSpec, ReviewKeepsItsWord, AppliesWhatWasShown, WhatIsLeft

-----------------------------------------------------------------------------
(* The intake of a CV.                                                       *)

\* A text may be kept with a CV: it is none, or one of a reader.
Keepable(text) == text = NoText \/ text.chars \in Nat
Reading == {"read", "pypdf", "ocr", "pick"}
IntakeSteps == Reading \cup {"idle", "snapshot", "metadata", "apply"}

\* Where the upload is: it has a row from the start, and a parse run once its
\* snapshot is taken.
IntakePlaces ==
    /\ step \in IntakeSteps
    /\ step # "idle" => LatestCv > 0 /\ cvFile \in File
    /\ step \in Reading \cup {"snapshot"} => runs[LatestCv].status = "none"
    /\ step \in {"metadata", "apply"} => runs[LatestCv].status # "none"
    /\ IsList(found) /\ \A i \in DOMAIN found : Keepable(found[i][2])

IntakeRows ==
    /\ IsList(rows)
    /\ \A i \in 1..LatestCv : DOMAIN rows[i] = {"status", "text"} /\ Keepable(rows[i].text)
    /\ \A i \in 1..LatestCv : rows[i].status = "parsed" => rows[i].text # NoText
    /\ \A i \in 1..LatestCv : rows[i].status \in {"pending", "failed", "empty", "parsed"}

\* What a parse run says is from the text of its CV.
IntakeRuns ==
    /\ IsList(runs) /\ Len(runs) = LatestCv
    /\ \A i \in 1..LatestCv : runs[i].band \in DOMAIN Order /\ runs[i].status \in {"none", rows[i].status}
    /\ \A i \in 1..LatestCv : runs[i].status = "parsed" =>
          \A f \in Checked : \A v \in runs[i].draft[f] : OfItsText(v, f, rows[i].text)

\* A field was last written from an upload that has a parse run.
IntakeFacts ==
    /\ from \in [Fields -> 0..LatestCv] /\ facts = [f \in Fields |-> facts[f]]
    /\ \A f \in Fields : from[f] # 0 => runs[from[f]].status # "none"

IntakeInv == IntakePlaces /\ IntakeRows /\ IntakeRuns /\ IntakeFacts /\ NothingInvented

LEMMA IntakeStarts == ASSUME IntakeInit PROVE IntakeInv
<1>1. IsList(<<>>) /\ DOMAIN <<>> = {} /\ Len(<<>>) = 0
  BY ListIs DEF IsList
<1>2. /\ step = "idle" /\ rows = <<>> /\ runs = <<>> /\ found = <<>>
      /\ facts = [f \in Fields |-> {}] /\ from = [f \in Fields |-> 0]
  BY DEF IntakeInit, EmptyDraft
<1>3. IntakePlaces
  BY <1>1, <1>2 DEF IntakePlaces, IntakeSteps, Reading
<1>4. IntakeRows /\ IntakeRuns /\ IntakeFacts
  BY <1>1, <1>2 DEF IntakeRows, IntakeRuns, IntakeFacts, LatestCv
<1>5. NothingInvented
  BY <1>2 DEF NothingInvented, Checked
<1> QED
  BY <1>3, <1>4, <1>5 DEF IntakeInv

\* A list with a new field in its last item.
LEMMA IntakeShape ==
  ASSUME IntakeInv
  PROVE  /\ LatestCv \in Nat /\ DOMAIN rows = 1..LatestCv /\ DOMAIN runs = 1..LatestCv
         /\ Len(rows) = LatestCv /\ Len(runs) = LatestCv
         /\ \A f \in Fields : from[f] \in 0..LatestCv
<1>1. IsList(rows) /\ IsList(runs) /\ Len(runs) = Len(rows) /\ from \in [Fields -> 0..Len(rows)]
  BY DEF IntakeInv, IntakeRows, IntakeRuns, IntakeFacts, LatestCv
<1>2. Len(rows) \in Nat /\ DOMAIN rows = 1..Len(rows) /\ DOMAIN runs = 1..Len(rows)
  BY <1>1, ListFacts
<1> QED
  BY <1>1, <1>2 DEF LatestCv

\* Nothing of what is stored changes.
LEMMA StoredKeeps ==
  ASSUME IntakeInv, UNCHANGED <<rows, runs, facts, from>>
  PROVE  IntakeRows' /\ IntakeRuns' /\ IntakeFacts' /\ NothingInvented'
<1>1. IntakeRows' /\ IntakeFacts' /\ NothingInvented'
  BY DEF IntakeInv, IntakeRows, IntakeFacts, NothingInvented, LatestCv
<1>2. IntakeRuns'
  BY DEF IntakeInv, IntakeRuns, LatestCv
<1> QED
  BY <1>1, <1>2

\* The row of the upload being read changes: no run and no field is made of it.
LEMMA ReadKeeps ==
  ASSUME IntakeInv, step \in Reading, UNCHANGED <<cvFile, runs, facts, from>>, step' = "snapshot",
         NEW newest, rows' = [rows EXCEPT ![LatestCv] = newest], Keepable(newest.text),
         DOMAIN newest = {"status", "text"}, newest.status = "parsed" => newest.text # NoText,
         newest.status \in {"pending", "failed", "empty", "parsed"},
         IsList(found') /\ \A i \in DOMAIN found' : Keepable(found'[i][2])
  PROVE  IntakeInv'
<1>1. /\ LatestCv \in Nat /\ DOMAIN rows = 1..LatestCv /\ DOMAIN runs = 1..LatestCv /\ LatestCv > 0
      /\ Len(rows) = LatestCv /\ Len(runs) = LatestCv
      /\ \A f \in Fields : from[f] \in 0..LatestCv
  BY IntakeShape DEF IntakeInv, IntakePlaces, Reading
<1>2. rows' = [i \in 1..LatestCv |-> rows'[i]]
  BY <1>1
<1>3. IsList(rows') /\ Len(rows') = LatestCv /\ LatestCv' = LatestCv
  <2>1. PICK n, s : n = LatestCv /\ s = rows'
    OBVIOUS
  <2>2. IsList(s) /\ Len(s) = n
    BY <1>1, <1>2, <2>1, ListIs
  <2> QED
    BY <2>1, <2>2 DEF LatestCv
<1>4. rows'[LatestCv] = newest /\ \A i \in 1..LatestCv : i # LatestCv => rows'[i] = rows[i]
  BY <1>1
<1>5. runs[LatestCv].status = "none"
  BY DEF IntakeInv, IntakePlaces
<1>6. IntakePlaces'
  BY <1>1, <1>3, <1>5 DEF IntakeInv, IntakePlaces, IntakeSteps, Reading
<1>7. IntakeRows'
  BY <1>3, <1>4 DEF IntakeInv, IntakeRows
<1>8. IntakeRuns'
  BY <1>1, <1>3, <1>4, <1>5 DEF IntakeInv, IntakeRuns
<1>9. IntakeFacts'
  BY <1>3 DEF IntakeInv, IntakeFacts
<1>10. NothingInvented'
  <2>1. SUFFICES ASSUME NEW f \in Checked, from[f] # 0, NEW v \in facts[f]
                      PROVE  OfItsText(v, f, rows'[from[f]].text)
    BY DEF NothingInvented
  <2>2. f \in Fields /\ from[f] \in 1..LatestCv /\ from[f] # LatestCv
    BY <1>1, <1>5, <2>1 DEF IntakeInv, IntakeFacts, Checked
  <2> QED
    BY <1>4, <2>1, <2>2 DEF IntakeInv, NothingInvented
<1> QED
  BY <1>6, <1>7, <1>8, <1>9, <1>10 DEF IntakeInv

LEMMA FinalizeKeeps ==
  ASSUME IntakeInv, step \in Reading, NEW text, Keepable(text), FinalizeText(text),
         IsList(found') /\ \A i \in DOMAIN found' : Keepable(found'[i][2])
  PROVE  IntakeInv'
<1>1. PICK n : n = LatestCv /\ n \in 1..n /\ DOMAIN rows = 1..n
  BY IntakeShape DEF IntakeInv, IntakePlaces, Reading
<1>2. DOMAIN rows[n] = {"status", "text"}
  BY <1>1 DEF IntakeInv, IntakeRows
<1>3. PICK newest : newest = [rows[n] EXCEPT !.status = ParseStatus(text), !.text = text]
  OBVIOUS
<1>4. DOMAIN newest = {"status", "text"} /\ newest.status = ParseStatus(text) /\ newest.text = text
  BY <1>2, <1>3
<1>5. rows' = [rows EXCEPT ![n] = newest]
  <2>1. rows' = [rows EXCEPT ![n].status = ParseStatus(text), ![n].text = text]
    BY <1>1 DEF FinalizeText
  <2> QED
    BY <1>1, <1>2, <1>3, <2>1
<1>6. step' = "snapshot" /\ UNCHANGED <<cvFile, runs, facts, from>>
  BY DEF FinalizeText
<1>7. newest.status = "parsed" => newest.text # NoText
  BY <1>4 DEF ParseStatus
<1>8. newest.status \in {"pending", "failed", "empty", "parsed"}
  BY <1>4 DEF ParseStatus
<1> QED
  BY <1>1, <1>4, <1>5, <1>6, <1>7, <1>8, ReadKeeps

LEMMA FailKeeps ==
  ASSUME IntakeInv, step \in Reading, FailExtraction
  PROVE  IntakeInv'
<1>1. PICK n : n = LatestCv /\ n \in 1..n /\ DOMAIN rows = 1..n
  BY IntakeShape DEF IntakeInv, IntakePlaces, Reading
<1>2. DOMAIN rows[n] = {"status", "text"} /\ Keepable(rows[n].text)
  BY <1>1 DEF IntakeInv, IntakeRows
<1>3. PICK newest : newest = [rows[n] EXCEPT !.status = "failed"]
  OBVIOUS
<1>4. DOMAIN newest = {"status", "text"} /\ newest.status = "failed" /\ newest.text = rows[n].text
  BY <1>2, <1>3
<1>5. rows' = [rows EXCEPT ![n] = newest]
  <2>1. rows' = [rows EXCEPT ![n].status = "failed"]
    BY <1>1 DEF FailExtraction
  <2> QED
    BY <1>1, <1>2, <1>3, <2>1
<1>6. step' = "snapshot" /\ UNCHANGED <<cvFile, runs, facts, from, found>>
  BY DEF FailExtraction
<1>7. IsList(found') /\ \A i \in DOMAIN found' : Keepable(found'[i][2])
  BY <1>6 DEF IntakeInv, IntakePlaces
<1> QED
  BY <1>1, <1>2, <1>4, <1>5, <1>6, <1>7, ReadKeeps

\* One more result among those found.
LEMMA FoundMore ==
  ASSUME IntakeInv, NEW method, NEW text, Keepable(text), NEW more, more = Append(found, <<method, text>>)
  PROVE  IsList(more) /\ \A i \in DOMAIN more : Keepable(more[i][2])
<1>1. IsList(found) /\ \A i \in DOMAIN found : Keepable(found[i][2])
  BY DEF IntakeInv, IntakePlaces
<1>2. PICK n : n = Len(found) /\ n \in Nat /\ DOMAIN found = 1..n
  BY <1>1, ListFacts
<1>3. PICK x : x = <<method, text>>
  OBVIOUS
<1>4. /\ IsList(more) /\ DOMAIN more = 1..(n + 1) /\ more[n + 1] = x
      /\ \A i \in DOMAIN found : more[i] = found[i]
  BY <1>1, <1>2, <1>3, AppendIs
<1>5. ASSUME NEW i \in DOMAIN more PROVE Keepable(more[i][2])
  <2>1. i \in DOMAIN found \/ i = n + 1
    BY <1>2, <1>4
  <2>2. x[2] = text
    BY <1>3
  <2> QED
    BY <1>1, <1>4, <2>1, <2>2
<1> QED
  BY <1>4, <1>5

LEMMA TryKeeps ==
  ASSUME IntakeInv, step \in Reading, NEW method, NEW text, Keepable(text), NEW next \in Reading,
         Try(method, text, next)
  PROVE  IntakeInv'
<1>1. IsList(found') /\ \A i \in DOMAIN found' : Keepable(found'[i][2])
  BY FoundMore DEF Try
<1>2. IntakeRows' /\ IntakeRuns' /\ IntakeFacts' /\ NothingInvented'
  BY StoredKeeps DEF Try, Stored
<1>3. IntakePlaces'
  BY <1>1 DEF IntakeInv, IntakePlaces, IntakeSteps, Reading, Try, Stored, LatestCv
<1> QED
  BY <1>2, <1>3 DEF IntakeInv

\* A step on to the next reader, without a result.
LEMMA PassKeeps ==
  ASSUME IntakeInv, step \in Reading, step' \in Reading, UNCHANGED cvFile, Stored, found' \in {found, <<>>}
  PROVE  IntakeInv'
<1>1. IsList(<<>>) /\ DOMAIN <<>> = {}
  BY ListIs DEF IsList
<1>2. IsList(found') /\ \A i \in DOMAIN found' : Keepable(found'[i][2])
  BY <1>1 DEF IntakeInv, IntakePlaces
<1>3. IntakeRows' /\ IntakeRuns' /\ IntakeFacts' /\ NothingInvented'
  BY StoredKeeps DEF Stored
<1>4. IntakePlaces'
  BY <1>2 DEF IntakeInv, IntakePlaces, IntakeSteps, Reading, Stored, LatestCv
<1> QED
  BY <1>3, <1>4 DEF IntakeInv

LEMMA FileKeepable ==
  ASSUME IntakeInv, step # "idle", NEW reader \in Readers, cvFile[reader] # Raises
  PROVE  Keepable(cvFile[reader])
<1>1. cvFile \in File
  BY DEF IntakeInv, IntakePlaces
<1>2. CASE cvFile[reader] = NoText
  BY <1>2 DEF Keepable
<1>3. CASE cvFile[reader] # NoText
  <2>1. cvFile[reader] \notin {NoText, Raises}
    BY <1>3
  <2>2. cvFile[reader].chars \in Nat
    BY <1>1, <2>1, FileAssumption
  <2> QED
    BY <2>2 DEF Keepable
<1> QED
  BY <1>2, <1>3

LEMMA PdfReads == ASSUME IntakeInv, ReadLayout \/ ReadPypdf \/ ReadScan PROVE IntakeInv'
<1>1. CASE ReadLayout
  <2>1. step = "read" /\ "layout" \in Readers /\ "pypdf" \in Reading /\ step \in Reading
    BY <1>1 DEF ReadLayout, Readers, Reading
  <2>2. CASE cvFile.layout = Raises
    BY <1>1, <2>1, <2>2, PassKeeps DEF ReadLayout
  <2>3. CASE cvFile.layout # Raises
    <3>1. Keepable(cvFile.layout)
      BY <2>1, <2>3, FileKeepable
    <3>2. CASE HighQuality(cvFile.layout)
      <4>1. PICK x : x = <<"layout", cvFile.layout>>
        OBVIOUS
      <4>2. found' = <<x>> /\ FinalizeText(cvFile.layout)
        BY <1>1, <2>3, <3>2, <4>1 DEF ReadLayout
      <4>3. IsList(<<x>>) /\ DOMAIN <<x>> = 1..1 /\ <<x>>[1] = x
        BY DEF IsList, ToSet
      <4>4. x[2] = cvFile.layout
        BY <4>1
      <4>5. IsList(found') /\ \A i \in DOMAIN found' : Keepable(found'[i][2])
        BY <3>1, <4>2, <4>3, <4>4
      <4> QED
        BY <2>1, <3>1, <4>2, <4>5, FinalizeKeeps
    <3>3. CASE ~HighQuality(cvFile.layout)
      BY <1>1, <2>1, <2>3, <3>1, <3>3, TryKeeps DEF ReadLayout
    <3> QED
      BY <3>2, <3>3
  <2> QED
    BY <2>2, <2>3
<1>2. CASE ReadPypdf
  <2>1. step = "pypdf" /\ "pypdf" \in Readers /\ "ocr" \in Reading /\ step \in Reading
    BY <1>2 DEF ReadPypdf, Readers, Reading
  <2>2. CASE cvFile.pypdf = Raises
    BY <1>2, <2>1, <2>2, FailKeeps DEF ReadPypdf
  <2>3. CASE cvFile.pypdf # Raises
    <3>1. Keepable(cvFile.pypdf)
      BY <2>1, <2>3, FileKeepable
    <3>2. CASE HighQuality(cvFile.pypdf)
      <4>1. found' = Append(found, <<"pypdf", cvFile.pypdf>>) /\ FinalizeText(cvFile.pypdf)
        BY <1>2, <2>3, <3>2 DEF ReadPypdf
      <4>2. IsList(found') /\ \A i \in DOMAIN found' : Keepable(found'[i][2])
        BY <3>1, <4>1, FoundMore
      <4> QED
        BY <2>1, <3>1, <4>1, <4>2, FinalizeKeeps
    <3>3. CASE ~HighQuality(cvFile.pypdf)
      BY <1>2, <2>1, <2>3, <3>1, <3>3, TryKeeps DEF ReadPypdf
    <3> QED
      BY <3>2, <3>3
  <2> QED
    BY <2>2, <2>3
<1>3. CASE ReadScan
  <2>1. step = "ocr" /\ "ocr" \in Readers /\ "pick" \in Reading /\ step \in Reading
    BY <1>3 DEF ReadScan, Readers, Reading
  <2>2. CASE cvFile.ocr = Raises
    BY <1>3, <2>1, <2>2, PassKeeps DEF ReadScan
  <2>3. CASE cvFile.ocr # Raises
    <3>1. Keepable(cvFile.ocr)
      BY <2>1, <2>3, FileKeepable
    <3> QED
      BY <1>3, <2>1, <2>3, <3>1, TryKeeps DEF ReadScan
  <2> QED
    BY <2>2, <2>3
<1> QED
  BY <1>1, <1>2, <1>3

LEMMA OtherReads == ASSUME IntakeInv, ReadDocx \/ ReadDoc \/ ReadImage PROVE IntakeInv'
<1>1. step = "read" /\ step \in Reading /\ step # "idle" /\ {"docx", "tools", "ocr"} \subseteq Readers
  BY DEF ReadDocx, ReadDoc, ReadImage, Readers, Reading
<1>2. CASE FailExtraction
  BY <1>1, <1>2, FailKeeps
<1>3. CASE ~FailExtraction
  <2>1. PICK reader \in Readers : cvFile[reader] # Raises /\ FinalizeText(cvFile[reader]) /\ found' = found
    BY <1>1, <1>3 DEF ReadDocx, ReadDoc, ReadImage
  <2>2. Keepable(cvFile[reader])
    BY <1>1, <2>1, FileKeepable
  <2>3. IsList(found') /\ \A i \in DOMAIN found' : Keepable(found'[i][2])
    BY <2>1 DEF IntakeInv, IntakePlaces
  <2> QED
    BY <1>1, <2>1, <2>2, <2>3, FinalizeKeeps
<1> QED
  BY <1>2, <1>3


\* The first of the largest of some numbers.
LEMMA FirstBest ==
  ASSUME NEW N \in Nat, NEW S \in SUBSET (1..N), S # {}, NEW u \in [1..N -> Int]
  PROVE  \E i \in S : \A j \in S : u[i] > u[j] \/ (u[i] = u[j] /\ i <= j)
<1> DEFINE Best(n) == S \cap 1..n = {} \/
             \E i \in S \cap 1..n : \A j \in S \cap 1..n : u[i] > u[j] \/ (u[i] = u[j] /\ i <= j)
<1>1. PICK G : G = {n \in 0..N : Best(n)}
  OBVIOUS
<1>5. \A n \in 0..N : n \in G <=> Best(n)
  BY <1>1
<1> HIDE DEF Best
<1>2. 0 \in G
  BY <1>5 DEF Best
<1>3. ASSUME NEW n \in 1..N, n - 1 \in G PROVE n \in G
  <2>1. 1..n = (1..(n - 1)) \cup {n} /\ n \in 0..N /\ n - 1 \in 0..N
    OBVIOUS
  <2>5. Best(n - 1)
    BY <1>3, <1>5, <2>1
  <2>2. CASE n \notin S
    <3>1. S \cap 1..n = S \cap 1..(n - 1)
      BY <2>1, <2>2
    <3>2. Best(n)
      BY <2>5, <3>1 DEF Best
    <3> QED
      BY <1>5, <2>1, <3>2
  <2>3. CASE n \in S /\ S \cap 1..(n - 1) = {}
    <3>1. S \cap 1..n = {n} /\ u[n] \in Int
      BY <2>1, <2>3
    <3>3. n \in S \cap 1..n /\ \A j \in S \cap 1..n : u[n] > u[j] \/ (u[n] = u[j] /\ n <= j)
      BY <3>1, <2>1
    <3>2. Best(n)
      BY <3>3 DEF Best
    <3> QED
      BY <1>5, <2>1, <3>2
  <2>4. CASE n \in S /\ S \cap 1..(n - 1) # {}
    <3>1. PICK i \in S \cap 1..(n - 1) :
             \A j \in S \cap 1..(n - 1) : u[i] > u[j] \/ (u[i] = u[j] /\ i <= j)
      BY <2>5, <2>4 DEF Best
    <3>2. PICK k \in {i, n} : k = IF u[n] > u[i] THEN n ELSE i
      OBVIOUS
    <3>3. \A j \in S \cap 1..n : u[k] > u[j] \/ (u[k] = u[j] /\ k <= j)
      BY <2>1, <3>1, <3>2
    <3>4. k \in S \cap 1..n
      BY <2>1, <2>4, <3>2
    <3>5. Best(n)
      BY <3>3, <3>4 DEF Best
    <3> QED
      BY <1>5, <2>1, <3>5
  <2> QED
    BY <2>2, <2>3, <2>4
<1>4. N \in G
  <2>1. \A n \in 1..N : n - 1 \in G => n \in G
    BY <1>3
  <2>2. \A n \in 0..N : n \in G
    BY <1>2, <2>1, PrefixInduction, Zenon
  <2> QED
    BY <2>2
<1>6. S \cap 1..N = S
  OBVIOUS
<1>7. Best(N)
  BY <1>4, <1>5
<1> QED
  BY <1>6, <1>7 DEF Best

\* Of the results one is the best, whatever their lengths are.
LEMMA PickKeeps == ASSUME IntakeInv, PickBest PROVE IntakeInv'
<1> DEFINE texts == {i \in 1..Len(found) : found[i][2] # NoText}
           beats(i, j) == \/ Usefulness(found[i][2]) > Usefulness(found[j][2])
                          \/ Usefulness(found[i][2]) = Usefulness(found[j][2]) /\ i <= j
           best == CHOOSE i \in texts : \A j \in texts : beats(i, j)
<1>1. step \in Reading /\ found' = found
  BY DEF PickBest, Reading
<1>2. IsList(found) /\ \A i \in DOMAIN found : Keepable(found[i][2])
  BY DEF IntakeInv, IntakePlaces
<1>3. PICK n : n = Len(found) /\ n \in Nat /\ DOMAIN found = 1..n
  BY <1>2, ListFacts
<1>4. CASE texts = {}
  <2>1. FinalizeText(NoText)
    BY <1>4, Zenon DEF PickBest
  <2>2. Keepable(NoText)
    BY DEF Keepable
  <2> QED
    BY <1>1, <1>2, <2>1, <2>2, FinalizeKeeps
<1>5. CASE texts # {}
  <2>1. FinalizeText(found[best][2])
    BY <1>5 DEF PickBest
  <2>2. \A i \in texts : Usefulness(found[i][2]) \in Int
    <3>1. \A i \in texts : found[i][2].chars \in Nat
      BY <1>2, <1>3 DEF Keepable
    <3>2. \A c \in Nat : c \in Int /\ c \div 4 \in Int
      OBVIOUS
    <3> QED
      BY <3>1, <3>2 DEF Usefulness
  <2>3. PICK u : u = [i \in 1..n |-> IF i \in texts THEN Usefulness(found[i][2]) ELSE 0]
    OBVIOUS
  <2>4. u \in [1..n -> Int] /\ texts \in SUBSET (1..n)
    BY <1>3, <2>2, <2>3
  <2>5. \E i \in texts : \A j \in texts : u[i] > u[j] \/ (u[i] = u[j] /\ i <= j)
    <3>1. PICK N, S : N = n /\ S = texts
      OBVIOUS
    <3>2. N \in Nat /\ S \in SUBSET (1..N) /\ S # {} /\ u \in [1..N -> Int]
      BY <1>3, <1>5, <2>4, <3>1
    <3>3. \E i \in S : \A j \in S : u[i] > u[j] \/ (u[i] = u[j] /\ i <= j)
      BY <3>2, FirstBest
    <3> QED
      BY <3>1, <3>3
  <2>6. \E i \in texts : \A j \in texts : beats(i, j)
    BY <1>3, <2>3, <2>5
  <2>7. best \in texts
    BY <2>6
  <2>8. Keepable(found[best][2])
    BY <1>2, <1>3, <2>7
  <2> QED
    BY <1>1, <1>2, <2>1, <2>8, FinalizeKeeps
<1> QED
  BY <1>4, <1>5

LEMMA ReceiveKeeps == ASSUME IntakeInv, NEW file \in File, ReceiveCv(file) PROVE IntakeInv'
<1>1. PICK n : n = LatestCv /\ n \in Nat /\ DOMAIN rows = 1..n /\ DOMAIN runs = 1..n /\ Len(rows) = n /\ Len(runs) = n
  BY IntakeShape
<1>2. IsList(rows) /\ IsList(runs)
  BY DEF IntakeInv, IntakeRows, IntakeRuns
<1>3. PICK newest : newest = [status |-> "pending", text |-> NoText]
  OBVIOUS
<1>4. PICK run : run = Unparsed
  OBVIOUS
<1>5. rows' = Append(rows, newest) /\ runs' = Append(runs, run)
  BY <1>3, <1>4 DEF ReceiveCv
<1>6. /\ IsList(rows') /\ DOMAIN rows' = 1..(n + 1) /\ Len(rows') = n + 1
      /\ rows'[n + 1] = newest /\ \A i \in 1..n : rows'[i] = rows[i]
  BY <1>1, <1>2, <1>5, AppendIs
<1>7. /\ IsList(runs') /\ DOMAIN runs' = 1..(n + 1) /\ Len(runs') = n + 1
      /\ runs'[n + 1] = run /\ \A i \in 1..n : runs'[i] = runs[i]
  BY <1>1, <1>2, <1>5, AppendIs
<1>8. LatestCv' = n + 1
  BY <1>6 DEF LatestCv
<1>9. 1..(n + 1) = 1..n \cup {n + 1}
  BY <1>1
<1>10. IntakePlaces'
  <2>1. IsList(<<>>) /\ DOMAIN <<>> = {}
    BY ListIs DEF IsList
  <2> QED
    BY <1>1, <1>4, <1>7, <1>8, <2>1 DEF ReceiveCv, IntakePlaces, IntakeSteps, Reading, Unparsed
<1>11. IntakeRows'
  BY <1>1, <1>3, <1>6, <1>8, <1>9 DEF IntakeInv, IntakeRows, Keepable
<1>12. IntakeRuns'
  <2>1. run.status = "none" /\ run.band \in DOMAIN Order
    BY <1>4 DEF Unparsed, Order
  <2> QED
    BY <1>1, <1>6, <1>7, <1>8, <1>9, <2>1 DEF IntakeInv, IntakeRuns
<1>13. from' = from /\ facts' = facts /\ \A f \in Fields : from[f] \in 0..n
  BY <1>1, IntakeShape DEF ReceiveCv
<1>14. IntakeFacts'
  BY <1>1, <1>7, <1>8, <1>13 DEF IntakeInv, IntakeFacts
<1>15. NothingInvented'
  <2>1. \A f \in Checked : from[f] # 0 => from[f] \in 1..n
    BY <1>1, <1>13 DEF Checked
  <2> QED
    BY <1>6, <1>13, <2>1 DEF IntakeInv, NothingInvented
<1> QED
  BY <1>10, <1>11, <1>12, <1>14, <1>15 DEF IntakeInv

-----------------------------------------------------------------------------
(* What a draft says is in its text.                                       *)

SaidIn(d, text) == \A f \in Checked : \A v \in d[f] : OfItsText(v, f, text)

LEMMA ParsersSay == ASSUME NEW text PROVE SaidIn(ParsedDraft(text), text)
BY DEF SaidIn, OfItsText

\* A name of which seven tenths are there lacks three tenths at most.
LEMMA GroundedLacksLittle ==
  ASSUME NEW name \in DOMAIN TokensOf, NEW text, IsGrounded(name, text), name \notin Short
  PROVE  10 * Cardinality(Unseen(name, text)) <= 3 * Len(TokensOf[name])
<1>1. PICK tokens : tokens = TokensOf[name]
  OBVIOUS
<1>2. PICK n : n = Len(tokens) /\ n \in Nat /\ DOMAIN tokens = 1..n
  BY <1>1, TokensAssumption
<1>3. PICK hits : hits = {i \in 1..n : tokens[i] \in text.has}
  OBVIOUS
<1>4. IsFiniteSet(1..n) /\ Cardinality(1..n) = n
  <2>1. \A a, b \in Int : IsFiniteSet(a..b) /\ Cardinality(a..b) = IF a > b THEN 0 ELSE b - a + 1
    BY FS_Interval
  <2>2. n \in Int /\ 1 \in Int
    BY <1>2
  <2>3. IsFiniteSet(1..n) /\ Cardinality(1..n) = IF 1 > n THEN 0 ELSE n - 1 + 1
    BY <2>1, <2>2
  <2> QED
    BY <1>2, <2>3
<1>5. Unseen(name, text) = (1..n) \ hits /\ (1..n) \cap hits = hits
  BY <1>1, <1>2, <1>3 DEF Unseen
<1>6. /\ Cardinality(Unseen(name, text)) = n - Cardinality(hits)
      /\ Cardinality(hits) \in Nat
  <2>1. IsFiniteSet(hits)
    BY <1>3, <1>4, FS_Subset
  <2>2. Cardinality((1..n) \ hits) = Cardinality(1..n) - Cardinality((1..n) \cap hits)
    BY <1>4, FS_Difference
  <2>3. Cardinality(hits) \in Nat
    BY <2>1, FS_CardinalityType
  <2> QED
    BY <1>4, <1>5, <2>2, <2>3
<1>7. 10 * Cardinality(hits) >= 7 * n
  BY <1>1, <1>2, <1>3 DEF IsGrounded
<1> QED
  BY <1>1, <1>2, <1>6, <1>7

\* What of an answer is valid is of the text.
LEMMA ValidSays ==
  ASSUME NEW text, NEW answer \in Answer, NEW f \in Checked, NEW v \in ValidAnswer(answer, text)[f]
  PROVE  /\ f \notin {"languages", "certificates"} /\ v \notin Lacking
         /\ \A name \in NamesIn[v] :
               name \in Short \/ 10 * Cardinality(Unseen(name, text)) <= 3 * Len(TokensOf[name])
<1>1. f \in Fields /\ f \notin {"summary", "roles"}
  BY DEF Checked
<1>2. f \notin {"languages", "certificates"} /\ v \in GroundedAmong(answer[f], text) \ Lacking
  BY <1>1 DEF ValidAnswer
<1>3. v \in answer[f] /\ \A name \in NamesIn[v] : IsGrounded(name, text)
  BY <1>2 DEF GroundedAmong
<1>4. \A name \in NamesIn[v] : name \in DOMAIN TokensOf
  BY <1>1, <1>3, AnswerAssumption, NamesAssumption
<1> QED
  BY <1>2, <1>3, <1>4, GroundedLacksLittle

LEMMA AnswerSays ==
  ASSUME NEW text, NEW answer, answer \in Answer \cup {NoText}
  PROVE  SaidIn(Structured(ParsedDraft(text), answer, text), text)
<1>1. PICK d : d = ParsedDraft(text)
  OBVIOUS
<1>2. SaidIn(d, text)
  BY <1>1, ParsersSay
<1>3. CASE Structured(d, answer, text) = d
  BY <1>1, <1>2, <1>3
<1>4. CASE answer \in Answer /\ Structured(d, answer, text) = WithAnswer(d, ValidAnswer(answer, text), text)
  <2>1. PICK ai : ai = ValidAnswer(answer, text)
    OBVIOUS
  <2>2. \A f \in Checked : f \in Fields /\ f \notin {"summary", "roles"}
    BY DEF Checked
  <2>3. ASSUME NEW f \in Checked, NEW v \in WithAnswer(d, ai, text)[f] PROVE OfItsText(v, f, text)
    <3>1. CASE v \in d[f]
      BY <1>2, <3>1 DEF SaidIn
    <3>2. CASE v \notin d[f]
      <4>1. v \in ai[f]
        BY <2>2, <3>2 DEF WithAnswer, BetterSummary, Richer, FillBlank, SkillAdditions
      <4>2. f = "skills" => v \in (Compact \cup text.says) \ Contaminated
        BY <2>2, <3>2 DEF WithAnswer, SkillAdditions
      <4>3. v \in ValidAnswer(answer, text)[f]
        BY <2>1, <4>1
      <4> QED
        BY <1>4, <4>2, <4>3, ValidSays DEF OfItsText
    <3> QED
      BY <3>1, <3>2
  <2> QED
    BY <1>1, <1>4, <2>1, <2>3 DEF SaidIn
<1> QED
  BY <1>1, <1>3, <1>4 DEF Structured

LEMMA SnapshotKeeps == ASSUME IntakeInv, PersistSnapshot PROVE IntakeInv'
<1>1. PICK n : n = LatestCv /\ n \in 1..n /\ DOMAIN rows = 1..n /\ DOMAIN runs = 1..n /\ Len(rows) = n /\ Len(runs) = n
  BY IntakeShape DEF IntakeInv, IntakePlaces, PersistSnapshot
<1>2. PICK newest : newest = rows[n]
  OBVIOUS
<1>3. /\ Keepable(newest.text) /\ (newest.status = "parsed" => newest.text # NoText)
      /\ newest.status \in {"pending", "failed", "empty", "parsed"}
  BY <1>1, <1>2 DEF IntakeInv, IntakeRows
<1>4. PICK answer \in Answer \cup {NoText} : runs' = [runs EXCEPT ![n] =
          [status |-> newest.status, band |-> Band(newest.text, UsesOcr(cvFile)),
           draft |-> IF newest.status # "parsed" THEN EmptyDraft
                     ELSE IF AsksModel(ParsedDraft(newest.text), newest.text) THEN Structured(ParsedDraft(newest.text), answer, newest.text)
                     ELSE ParsedDraft(newest.text),
           image |-> cvFile.suffix \in Image]]
  BY <1>1, <1>2, Zenon DEF PersistSnapshot
<1>5. PICK draft : draft = IF newest.status # "parsed" THEN EmptyDraft
                     ELSE IF AsksModel(ParsedDraft(newest.text), newest.text) THEN Structured(ParsedDraft(newest.text), answer, newest.text)
                     ELSE ParsedDraft(newest.text)
  OBVIOUS
<1>6. PICK run : run = [status |-> newest.status, band |-> Band(newest.text, UsesOcr(cvFile)),
                        draft |-> draft, image |-> cvFile.suffix \in Image]
  OBVIOUS
<1>7. runs' = [runs EXCEPT ![n] = run]
  BY <1>4, <1>5, <1>6
<1>8. run.status = "parsed" => SaidIn(run.draft, newest.text)
  BY <1>3, <1>5, <1>6, ParsersSay, AnswerSays
<1>9. run.band \in DOMAIN Order /\ run.status = newest.status
  BY <1>6 DEF Band, Order
<1>10. IsList(runs') /\ Len(runs') = n
  <2>1. PICK s : s = runs'
    OBVIOUS
  <2>3. runs' = [i \in 1..n |-> runs'[i]]
    BY <1>1, <1>7
  <2>2. s = [i \in 1..n |-> s[i]] /\ n \in Nat
    BY <1>1, <2>1, <2>3
  <2> QED
    BY <2>1, <2>2, ListIs
<1>11. runs'[n] = run /\ \A i \in 1..n : i # n => runs'[i] = runs[i]
  BY <1>1, <1>7
<1>12. step' = "metadata" /\ UNCHANGED <<cvFile, found, rows, facts, from>> /\ LatestCv' = n /\ step = "snapshot"
  BY <1>1 DEF PersistSnapshot, LatestCv
<1>13. IntakePlaces'
  BY <1>1, <1>3, <1>9, <1>11, <1>12 DEF IntakeInv, IntakePlaces, IntakeSteps, Reading
<1>14. IntakeRows' /\ NothingInvented'
  BY <1>12 DEF IntakeInv, IntakeRows, NothingInvented, LatestCv
<1>15. IntakeRuns'
  BY <1>1, <1>2, <1>8, <1>9, <1>10, <1>11, <1>12 DEF IntakeInv, IntakeRuns, SaidIn
<1>16. IntakeFacts'
  BY <1>1, <1>3, <1>9, <1>11, <1>12 DEF IntakeInv, IntakeFacts
<1> QED
  BY <1>13, <1>14, <1>15, <1>16 DEF IntakeInv

LEMMA NameKeeps == ASSUME IntakeInv, NameCv \/ Stop PROVE IntakeInv'
<1>1. IntakeRows' /\ IntakeRuns' /\ IntakeFacts' /\ NothingInvented'
  BY StoredKeeps DEF NameCv, Stop
<1>2. IsList(<<>>) /\ DOMAIN <<>> = {}
  BY ListIs DEF IsList
<1>3. CASE NameCv
  <2>1. IntakePlaces'
    BY <1>3 DEF IntakeInv, IntakePlaces, IntakeSteps, Reading, NameCv, LatestCv
  <2> QED
    BY <1>1, <2>1 DEF IntakeInv
<1>4. CASE Stop
  <2>1. IntakePlaces'
    BY <1>2, <1>4 DEF IntakeInv, IntakePlaces, IntakeSteps, Reading, Stop
  <2> QED
    BY <1>1, <2>1 DEF IntakeInv
<1> QED
  BY <1>3, <1>4

\* The run that is applied is the one of the upload being applied.
LEMMA LatestRunIs == ASSUME IntakeInv, step = "apply" PROVE LatestCv \in 1..LatestCv /\ LatestRun = runs[LatestCv]
<1>1. PICK n : n = LatestCv /\ n \in 1..n /\ DOMAIN runs = 1..n /\ Len(runs) = n
  BY IntakeShape DEF IntakeInv, IntakePlaces
<1>2. runs[n].status # "none"
  BY <1>1 DEF IntakeInv, IntakePlaces
<1> DEFINE Last1(i) == runs[i].status # "none" /\ \A j \in 1..n : runs[j].status # "none" => j <= i
<1>3. Last1(n)
  BY <1>1, <1>2
<1>4. \A i \in 1..n : Last1(i) => i = n
  BY <1>1, <1>2
<1>5. (CHOOSE i \in 1..n : Last1(i)) = n
  BY <1>1, <1>3, <1>4
<1> QED
  BY <1>1, <1>5 DEF LatestRun

LEMMA CvApplyKeeps == ASSUME IntakeInv, AutoApply PROVE IntakeInv'
<1>1. PICK n : n = LatestCv /\ n \in 1..n /\ DOMAIN rows = 1..n /\ DOMAIN runs = 1..n /\ Len(rows) = n /\ Len(runs) = n
  BY IntakeShape, LatestRunIs DEF AutoApply
<1>2. PICK run : run = runs[n] /\ run = LatestRun
  BY <1>1, LatestRunIs DEF AutoApply
<1>3. PICK d : d = Sanitized(run)
  OBVIOUS
<1>4. PICK w : w = IF Trusted(run) THEN WrittenFields(run, d) ELSE {}
  OBVIOUS
<1>5. /\ facts' = [f \in Fields |-> IF f \in w THEN d[f] ELSE facts[f]]
      /\ from' = [f \in Fields |-> IF f \in w THEN n ELSE from[f]]
      /\ step' = "idle" /\ found' = <<>> /\ UNCHANGED <<rows, runs>>
  BY <1>1, <1>2, <1>3, <1>4 DEF AutoApply
<1>6. run.status # "none"
  BY <1>1, <1>2 DEF IntakeInv, IntakePlaces, AutoApply
<1>7. w # {} => run.status = "parsed"
  BY <1>4 DEF Trusted
<1>8. \A f \in Checked : f \in w => \A v \in d[f] : OfItsText(v, f, rows[n].text)
  <2>1. \A f \in Checked : f \in Fields /\ d[f] \subseteq run.draft[f]
    BY <1>3 DEF Sanitized, Checked
  <2> QED
    BY <1>1, <1>2, <1>7, <2>1 DEF IntakeInv, IntakeRuns
<1>9. IntakePlaces'
  <2>1. IsList(<<>>) /\ DOMAIN <<>> = {}
    BY ListIs DEF IsList
  <2> QED
    BY <1>5, <2>1 DEF IntakePlaces, IntakeSteps, Reading
<1>10. IntakeRows' /\ IntakeRuns'
  BY <1>5 DEF IntakeInv, IntakeRows, IntakeRuns, LatestCv
<1>11. \A f \in Fields : from[f] \in 0..n /\ from'[f] = IF f \in w THEN n ELSE from[f]
  BY <1>1, <1>5, IntakeShape
<1>12. IntakeFacts'
  <2>1. from' \in [Fields -> 0..LatestCv'] /\ LatestCv' = n
    BY <1>1, <1>5, <1>11 DEF LatestCv
  <2>2. facts' = [f \in Fields |-> facts'[f]]
    BY <1>5
  <2> QED
    BY <1>1, <1>2, <1>5, <1>6, <1>11, <2>1, <2>2 DEF IntakeInv, IntakeFacts
<1>13. NothingInvented'
  <2>1. \A f \in Checked : f \in Fields
    BY DEF Checked
  <2>2. \A f \in Checked : facts'[f] = IF f \in w THEN d[f] ELSE facts[f]
    BY <1>5, <2>1
  <2> QED
    BY <1>5, <1>8, <1>11, <2>1, <2>2 DEF IntakeInv, NothingInvented
<1> QED
  BY <1>9, <1>10, <1>12, <1>13 DEF IntakeInv

LEMMA IntakeNextKeeps == IntakeInv /\ [IntakeNext]_intakeVars => IntakeInv'
<1> SUFFICES ASSUME IntakeInv, [IntakeNext]_intakeVars PROVE IntakeInv'
  OBVIOUS
<1>1. CASE UNCHANGED intakeVars
  <2>1. IntakeRows' /\ IntakeRuns' /\ IntakeFacts' /\ NothingInvented'
    BY <1>1, StoredKeeps DEF intakeVars
  <2>2. IntakePlaces'
    BY <1>1 DEF IntakeInv, IntakePlaces, LatestCv, intakeVars
  <2> QED
    BY <2>1, <2>2 DEF IntakeInv
<1>2. CASE \E file \in File : ReceiveCv(file)
  BY <1>2, ReceiveKeeps
<1>3. CASE ReadLayout \/ ReadPypdf \/ ReadScan
  BY <1>3, PdfReads
<1>4. CASE PickBest
  BY <1>4, PickKeeps
<1>5. CASE ReadDocx \/ ReadDoc \/ ReadImage
  BY <1>5, OtherReads
<1>6. CASE PersistSnapshot
  BY <1>6, SnapshotKeeps
<1>7. CASE NameCv \/ Stop
  BY <1>7, NameKeeps
<1>8. CASE AutoApply
  BY <1>8, CvApplyKeeps
<1> QED
  BY <1>1, <1>2, <1>3, <1>4, <1>5, <1>6, <1>7, <1>8 DEF IntakeNext

LEMMA IntakeKeeps == IntakeSpec => []IntakeInv
<1>1. IntakeInit => IntakeInv
  BY IntakeStarts
<1>2. IntakeInv /\ [IntakeNext]_intakeVars => IntakeInv'
  BY IntakeNextKeeps
<1> QED
  BY <1>1, <1>2, PTL DEF IntakeSpec

\* Whatever the local model answers, a headline, skill, place, school or job in
\* the profile is what the parsers found in the text of its CV, or one whose
\* names lack three tenths of their words in it at most (_validate_extraction).
THEOREM NothingInventedTheorem == IntakeSpec => []NothingInvented
<1>1. IntakeInv => NothingInvented
  BY DEF IntakeInv
<1> QED
  BY <1>1, IntakeKeeps, PTL

ClearedStep ==
    \A f \in Fields : facts[f] # {} /\ facts'[f] = {} =>
       LET run == runs[from'[f]]
       IN  run.band = "high" /\ \E g \in Fields : facts'[g] # {} /\ from'[g] = from'[f]

LEMMA ClearsRightly == IntakeInv /\ [IntakeNext]_intakeVars => [ClearedStep]_intakeVars
<1> SUFFICES ASSUME IntakeInv, [IntakeNext]_intakeVars PROVE [ClearedStep]_intakeVars
  OBVIOUS
<1>1. CASE facts' = facts
  BY <1>1 DEF ClearedStep
<1>2. CASE AutoApply
  <2>1. PICK n : n = LatestCv /\ n \in 1..n
    BY <1>2, LatestRunIs DEF AutoApply
  <2>2. PICK run : run = runs[n] /\ run = LatestRun
    BY <1>2, <2>1, LatestRunIs DEF AutoApply
  <2>3. PICK d : d = Sanitized(run)
    OBVIOUS
  <2>4. PICK w : w = IF Trusted(run) THEN WrittenFields(run, d) ELSE {}
    OBVIOUS
  <2>5. /\ facts' = [f \in Fields |-> IF f \in w THEN d[f] ELSE facts[f]]
        /\ from' = [f \in Fields |-> IF f \in w THEN n ELSE from[f]]
    BY <1>2, <2>1, <2>2, <2>3, <2>4 DEF AutoApply
  <2>6. SUFFICES ASSUME NEW f \in Fields, facts[f] # {}, facts'[f] = {}
                 PROVE  runs[from'[f]].band = "high" /\ \E g \in Fields : facts'[g] # {} /\ from'[g] = from'[f]
    BY DEF ClearedStep
  <2>7. f \in w /\ d[f] = {} /\ from'[f] = n
    BY <2>5, <2>6
  <2>8. Pivots(run, d)
    BY <2>4, <2>7 DEF WrittenFields
  <2>9. run.band \in DOMAIN Order
    BY <2>1, <2>2 DEF IntakeInv, IntakeRuns
  <2>10. run.band = "high"
    BY <2>8, <2>9 DEF Pivots, AtLeast, Order
  <2>11. PICK g \in Fields : d[g] # {}
    BY <2>8 DEF Pivots, PivotSignal
  <2>12. g \in w
    BY <2>4, <2>7, <2>11 DEF WrittenFields
  <2>13. facts'[g] # {} /\ from'[g] = n
    BY <2>5, <2>11, <2>12
  <2> QED
    BY <2>2, <2>7, <2>10, <2>13
<1>3. facts' = facts \/ AutoApply
  BY DEF IntakeNext, intakeVars, ReceiveCv, ReadLayout, ReadPypdf, ReadScan, PickBest, ReadDocx, ReadDoc, ReadImage,
         PersistSnapshot, NameCv, Stop, FinalizeText, FailExtraction, Try, Stored
<1> QED
  BY <1>1, <1>2, <1>3

\* A field that had values is emptied only by a CV whose text scores high and
\* which carries something (_auto_apply_latest_cv_parse_run).
THEOREM ClearedTheorem == IntakeSpec => ClearedByTrustedCv
<1>1. IntakeInv /\ [IntakeNext]_intakeVars => [ClearedStep]_intakeVars
  BY ClearsRightly
<1>2. IntakeSpec => [][ClearedStep]_intakeVars
  BY <1>1, IntakeKeeps, PTL DEF IntakeSpec
<1> QED
  BY <1>2, PTL DEF ClearedByTrustedCv, ClearedStep
=============================================================================
