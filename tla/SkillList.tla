------------------------------ MODULE SkillList ------------------------------
(***************************************************************************)
(* The skills of a profile (api/routers/user_profile.py): their names are  *)
(* a list in the profile row, and what the user says of a skill, with the  *)
(* file that proves it, is a row of subscriber_skill_details found by the  *)
(* lower-case name.  The endpoints name a skill by its position, write the *)
(* list first and the row after it; a CV or the profile form replaces the  *)
(* list and leaves the rows.                                               *)
(***************************************************************************)
EXTENDS Integers, FiniteSets, Sequences, SequencesExt

CONSTANTS Name,         \* spellings of skills
          KeyOf,        \* [Name -> lower-case name]
          Note,         \* what a user may say of a skill
          NoValue,
          Call,         \* calls of the subscriber, numbered; call c uploads file c
          MaxSkills,    \* bound: skills listed
          MaxCalls      \* bound: calls in flight at the same time

\* No upload is mistaken for a field left out.
ASSUME NoValueIsNoCall == NoValue \notin Call

Key == {KeyOf[n] : n \in Name}
NoDetail == [file |-> NoValue, note |-> NoValue, stored |-> FALSE]

VARIABLES skills,   \* the skills column of the profile row
          detail,   \* the detail row of each key
          call,     \* where each call is, and what it holds
          proofs,   \* history: the file last uploaded for each listed key
          orderly   \* history: only these endpoints were used, one at a time

skillVars == <<skills, detail, call, proofs, orderly>>
Idle == [pc |-> "idle"]
Running == {c \in Call : call[c].pc \notin {"idle", "done"}}
Keys(list) == {KeyOf[list[i]] : i \in 1..Len(list)}

Moves(c, record) == call' = [call EXCEPT ![c] = record]
Answered(c) == Moves(c, [pc |-> "done"])
SameRows == UNCHANGED <<skills, detail, proofs>>

\* A call reaches its handler, which reads the list.
Enter(c) ==
    /\ call[c] = Idle /\ \A b \in Call : b < c => call[b] # Idle
    /\ Cardinality(Running) < MaxCalls
    /\ orderly' = (orderly /\ Running = {})

-----------------------------------------------------------------------------
(* POST /skills: a name that is not listed yet.                            *)

CreateSkill(c) ==
    /\ Enter(c)
    /\ \E n \in Name, note \in Note \cup {NoValue} :
         /\ KeyOf[n] \notin Keys(skills) /\ Len(skills) < MaxSkills
         /\ Moves(c, [pc |-> "list", list |-> Append(skills, n), new |-> n, old |-> NoValue,
                   note |-> note, kind |-> "create"])
    /\ SameRows

\* PATCH /skills/{id}: the name may change, and no other skill has it.
PatchSkill(c) ==
    /\ Enter(c)
    /\ \E i \in 1..Len(skills), n \in Name, note \in Note \cup {NoValue} :
         /\ \A j \in 1..Len(skills) : j # i => KeyOf[skills[j]] # KeyOf[n]
         /\ Moves(c, [pc |-> "list", list |-> [skills EXCEPT ![i] = n], new |-> n,
                   old |-> skills[i], note |-> note, kind |-> "patch"])
    /\ SameRows

DeleteSkill(c) ==
    /\ Enter(c)
    /\ \E i \in 1..Len(skills) :
         Moves(c, [pc |-> "list", list |-> RemoveAt(skills, i), new |-> NoValue,
                old |-> skills[i], note |-> NoValue, kind |-> "delete"])
    /\ SameRows

\* POST /skills/{id}/evidence: the position is looked up, then the file awaited.
UploadEvidence(c) ==
    /\ Enter(c)
    /\ \E i \in 1..Len(skills) :
         Moves(c, [pc |-> "await", list |-> <<>>, new |-> skills[i], old |-> NoValue,
                note |-> NoValue, kind |-> "evidence"])
    /\ SameRows

\* PUT of the profile form and the apply of a CV, which know nothing of rows.
ReplaceSkills(c) ==
    /\ Enter(c)
    /\ \E n \in Name : skills' = <<n>>
    /\ orderly' = FALSE
    /\ Answered(c)
    /\ UNCHANGED <<detail, proofs>>

\* A history of the files: a rename keeps them, a delete forgets them.
AfterList(r) ==
    CASE r.kind = "delete" -> [proofs EXCEPT ![KeyOf[r.old]] = NoValue]
      [] r.kind = "patch"  ->
           [k \in Key |-> IF k = KeyOf[r.new] THEN proofs[KeyOf[r.old]]
                          ELSE IF k = KeyOf[r.old] THEN NoValue ELSE proofs[k]]
      [] OTHER -> proofs

\* The list is written whole (_upsert_profile_with_skills).
WriteList(c) ==
    LET r == call[c] IN
    /\ r.pc = "list"
    /\ skills' = r.list
    /\ proofs' = AfterList(r)
    /\ Moves(c, [r EXCEPT !.pc = CASE r.kind = "create" -> "store"
                                [] r.kind = "patch" -> IF r.old = r.new THEN "read" ELSE "rename"
                                [] OTHER -> "drop"])
    /\ UNCHANGED <<detail, orderly>>

(* Mutant: the row of the old name stays behind. *)
RenameDetail_not(c) ==
    LET r == call[c] IN
    /\ r.pc = "rename"
    /\ Moves(c, [r EXCEPT !.pc = "read"])
    /\ UNCHANGED <<detail, skills, proofs, orderly>>

\* A row that has the new name already makes the rename fail.
RenameDetail(c) ==
    LET r == call[c]
        from == KeyOf[r.old]
        to == KeyOf[r.new]
    IN  /\ r.pc = "rename"
        /\ IF from # to /\ detail[from].stored /\ detail[to].stored
           THEN Answered(c) /\ UNCHANGED detail
           ELSE /\ Moves(c, [r EXCEPT !.pc = "read"])
                /\ detail' = IF ~detail[from].stored \/ from = to THEN detail
                             ELSE [detail EXCEPT ![to] = detail[from], ![from] = NoDetail]
        /\ UNCHANGED <<skills, proofs, orderly>>

\* PATCH keeps what the payload leaves out from the row it reads here.
ReadDetail(c) ==
    LET r == call[c]
        row == detail[KeyOf[r.new]]
    IN  /\ r.pc = "read"
        /\ Moves(c, [r EXCEPT !.pc = "keep", !.note = IF @ = NoValue THEN row.note ELSE @,
                    !.list = IF row.file = NoValue THEN <<>> ELSE <<row.file>>])
        /\ UNCHANGED <<detail, skills, proofs, orderly>>

\* A file that is not given stays.
UpsertDetail(key, note, file) ==
    detail' = [detail EXCEPT ![key] =
                 [stored |-> TRUE, note |-> note, file |-> IF file = NoValue THEN @.file ELSE file]]

StoreDetail(c) ==
    LET r == call[c] IN
    /\ r.pc \in {"store", "keep"}
    /\ UpsertDetail(KeyOf[r.new], r.note,
                    IF r.pc = "store" \/ r.list = <<>> THEN NoValue ELSE r.list[1])
    /\ Answered(c)
    /\ UNCHANGED <<skills, proofs, orderly>>

\* The file has come: row and file of the name looked up before.
StoreEvidence(c) ==
    LET k == KeyOf[call[c].new] IN
    /\ call[c].pc = "await"
    /\ UpsertDetail(k, detail[k].note, c)
    /\ proofs' = [proofs EXCEPT ![k] = c]
    /\ Answered(c)
    /\ UNCHANGED <<skills, orderly>>

DropDetail(c) ==
    /\ call[c].pc = "drop"
    /\ detail' = [detail EXCEPT ![KeyOf[call[c].old]] = NoDetail]
    /\ Answered(c)
    /\ UNCHANGED <<skills, proofs, orderly>>

SkillInit ==
    /\ skills = <<>>
    /\ detail = [k \in Key |-> NoDetail]
    /\ call = [c \in Call |-> Idle]
    /\ proofs = [k \in Key |-> NoValue]
    /\ orderly = TRUE

SkillNext ==
    \E c \in Call :
        \/ CreateSkill(c) \/ PatchSkill(c) \/ DeleteSkill(c) \/ UploadEvidence(c)
        \/ ReplaceSkills(c)
        \/ WriteList(c) \/ RenameDetail(c) \/ ReadDetail(c) \/ StoreDetail(c)
        \/ StoreEvidence(c) \/ DropDetail(c)

SkillSpec == SkillInit /\ [][SkillNext]_skillVars

-----------------------------------------------------------------------------
\* As long as the skills are changed by their own endpoints and one call at a
\* time, the file a listed skill shows is the one last uploaded for it, a
\* rename and a change of its notes notwithstanding, and a skill that is
\* created anew shows none (the skill endpoints, upsert_, rename_ and
\* delete_subscriber_skill_detail).
EvidenceOfItsSkill ==
    (orderly /\ Running = {}) =>
        /\ \A k \in Keys(skills) : detail[k].file = proofs[k]
        /\ \A k \in Key : detail[k].stored => k \in Keys(skills)

=============================================================================
