----------------------------- MODULE ChangeSets -----------------------------
(***************************************************************************)
(* Change sets over documents and files                                    *)
(* (src/core/workspace/change_set_service.cpp, document_service.cpp).      *)
(*                                                                         *)
(* A change set is a sequence of operations on files that is approved and  *)
(* then applied, and can be undone by the inverse edit computed when the   *)
(* application began.  An operation works on the open document of a file   *)
(* when there is one, otherwise on the file on disk.                       *)
(*                                                                         *)
(* ApplyApproved and UndoApplied run on the thread that also opens, edits  *)
(* and saves documents, so users' calls do not interleave with them; other *)
(* processes do write the files meanwhile, so every operation is a step of *)
(* its own.  A text is a model value, and a list of text edits is one      *)
(* function from texts to texts.                                           *)
(***************************************************************************)
EXTENDS Naturals, Sequences, FiniteSets

CONSTANTS
  File,          \* files of the workspace
  Text,          \* contents of a file
  EmptyText,     \* the empty one
  Absent,        \* no file on disk; no open document
  Edited,        \* the effect of an EditText operation on a text
  Edits,         \* the edits clients propose: sequences of operations
  MaxChangeSets, \* bound: how many change sets are created
  MaxVersion     \* bound: versions a user's edits and applications start
                 \* from; an undo may start from twice as much

Kind == {"ReplaceFile", "EditText", "CreateFile", "DeleteFile", "RenameFile"}

\* WorkspaceEditOperation; version is expected_document_version.
WorkspaceEditOperation ==
  [kind : Kind, file : File, target : File, original : Text, replacement : Text,
   version : Nat]

ASSUME ChangeSetAssumption ==
  /\ EmptyText \in Text /\ Absent \notin Text
  /\ Edited \in [Text -> Text]
  /\ Edits \subseteq Seq(WorkspaceEditOperation)
  /\ MaxChangeSets \in Nat /\ MaxVersion \in Nat

ChangeSetId == 1 .. MaxChangeSets

ChangeSetApplyOptions == {"save_after_apply", "preflight"}

\* "None" stands for an identifier that has not been given out.
ChangeSetStatus == {"None", "Pending", "Approved", "Rejected", "Applied", "Undone"}

VARIABLES
  disk,        \* the text of each file on disk, or Absent
  text,        \* TextDocument::text, Absent when the file is not open
  version,     \* TextDocument::version
  dirty,       \* open documents with TextDocument::dirty
  nextId,      \* next_change_set_id_
  status,      \* ChangeSet::status
  edit,        \* ChangeSet::edit
  inverse,     \* ChangeSet::inverse_edit
  phase,       \* "idle", or the call that is running: "apply" or "undo"
  current,     \* the change set it works on
  operations,  \* the operations it performs
  position,    \* index of the next one
  pending,     \* the inverse edit computed when the application began
  options,     \* the fields of ChangeSetApplyOptions that are true
  foreseen,    \* history: preflight has foreseen how the application that
               \* runs ends, and no file was written from outside since
  undisturbed, \* history: the set applied last, 0 once anybody interfered
  before       \* history: what was read when its application began

files == <<disk, text, version, dirty>>
sets == <<nextId, status, edit, inverse>>
call == <<phase, current, operations, position, pending, options, foreseen>>
history == <<undisturbed, before>>
vars == <<files, sets, call, history>>

-----------------------------------------------------------------------------
(* Documents and files.                                                    *)

IsOpen(f) == text[f] # Absent

\* DocumentService::ReadText: the open document hides the file.
ReadText(f) == IF IsOpen(f) THEN text[f] ELSE disk[f]

\* An open document that does not show what is on disk.
OutOfStep(f) == IsOpen(f) /\ text[f] # disk[f]

\* SetText on an open document, or on the one OpenDocument creates with
\* version 1, followed by SaveDocument when saved.
SetText(f, new, saved) ==
  /\ text' = [text EXCEPT ![f] = new]
  /\ version' = [version EXCEPT ![f] = IF IsOpen(f) THEN version[f] + 1 ELSE 2]
  /\ disk' = IF saved THEN [disk EXCEPT ![f] = new] ELSE disk
  /\ dirty' = IF saved THEN dirty \ {f} ELSE dirty \cup {f}

\* What is read when nothing is to be remembered.
Nothing == [f \in File |-> Absent]

Disturb == undisturbed' = 0 /\ before' = Nothing

Close(f) ==
  /\ text' = [text EXCEPT ![f] = Absent]
  /\ version' = [version EXCEPT ![f] = 0]
  /\ dirty' = dirty \ {f}

-----------------------------------------------------------------------------
(* What an operation asks of the workspace.                                *)

VersionExpected(op) ==
  op.version = 0 \/ ~IsOpen(op.file) \/ op.version = version[op.file]

PreflightOperation(op) ==
  /\ op.kind = "CreateFile" => disk[op.file] = Absent
  /\ op.kind \in {"DeleteFile", "ReplaceFile"} => ReadText(op.file) = op.original
  /\ op.kind = "RenameFile" => disk[op.file] # Absent /\ disk[op.target] = Absent
  /\ op.kind = "EditText" => ReadText(op.file) # Absent
  /\ op.kind \in {"EditText", "ReplaceFile"} => VersionExpected(op)

\* Preflight compares every operation with the workspace as it is before the
\* first of them.  Mutant: only the first one.
PreflightFirst(ops) == ops = <<>> \/ PreflightOperation(ops[1])
Preflight(ops) == \A i \in DOMAIN ops : PreflightOperation(ops[i])

\* The tests ApplyOperation repeats before it changes anything, with the ones
\* preflight has not made: a deletion needs the file itself, and an expected
\* version is compared with the version of a document opened just now too.
Applicable(op) ==
  /\ PreflightOperation(op)
  /\ op.kind = "DeleteFile" => disk[op.file] # Absent
  /\ op.kind = "EditText" /\ ~IsOpen(op.file) => op.version \in {0, 1}

\* CreateInverseEdit: the inverse of one operation, from the texts before the
\* application.
InverseKind ==
  [CreateFile |-> "DeleteFile", DeleteFile |-> "CreateFile",
   RenameFile |-> "RenameFile", EditText |-> "ReplaceFile",
   ReplaceFile |-> "ReplaceFile"]

TextBefore(f) == IF ReadText(f) = Absent THEN EmptyText ELSE ReadText(f)

InverseRecord(op, original, replacement) ==
  [kind |-> InverseKind[op.kind],
   file |-> IF op.kind = "RenameFile" THEN op.target ELSE op.file,
   target |-> op.file, original |-> original, replacement |-> replacement,
   version |-> 0]

InverseAhead(op) ==
  IF op.kind = "EditText"
    THEN InverseRecord(op, TextBefore(op.file), Edited[TextBefore(op.file)])
    ELSE InverseRecord(op, op.original, op.replacement)
Inverse(op) ==
  IF op.kind = "EditText"
    THEN InverseRecord(op, Edited[TextBefore(op.file)], TextBefore(op.file))
    ELSE InverseRecord(op, op.replacement, op.original)

\* The files an operation creates, removes or overwrites.
Touched(op) == IF op.kind = "RenameFile" THEN {op.file, op.target} ELSE {op.file}

\* What preflight has to find beside what it tests to know how the application
\* ends: the operations work on different files, a file to be deleted is on disk
\* and not in a buffer only, and a text edit that expects a version has its
\* document open, or expects the version of one that is opened just now.
Foreseeable(ops) ==
  /\ \A i, j \in DOMAIN ops : i # j => Touched(ops[i]) \cap Touched(ops[j]) = {}
  /\ \A i \in DOMAIN ops :
       /\ ops[i].kind = "DeleteFile" => disk[ops[i].file] # Absent
       /\ ops[i].kind = "EditText" => ops[i].version \in {0, 1} \/ IsOpen(ops[i].file)

InverseEdit(ops) == [i \in 1 .. Len(ops) |-> Inverse(ops[Len(ops) + 1 - i])]

\* No file the edit creates, deletes or renames has a buffer that hides
\* something else than what is on disk.
InStep(ops) ==
  \A i \in DOMAIN ops :
    ops[i].kind \in {"CreateFile", "DeleteFile", "RenameFile"}
      => \A f \in Touched(ops[i]) : ~OutOfStep(f)

-----------------------------------------------------------------------------
Init ==
  /\ disk \in [File -> Text \cup {Absent}]
  /\ text = [f \in File |-> Absent]
  /\ version = [f \in File |-> 0]
  /\ dirty = {}
  /\ nextId = 1
  /\ status = [id \in ChangeSetId |-> "None"]
  /\ edit = [id \in ChangeSetId |-> <<>>]
  /\ inverse = [id \in ChangeSetId |-> <<>>]
  /\ phase = "idle" /\ current = 0
  /\ operations = <<>> /\ position = 1 /\ pending = <<>>
  /\ options = {} /\ foreseen = FALSE
  /\ undisturbed = 0 /\ before = Nothing

-----------------------------------------------------------------------------
(* The user's documents, and other processes.                              *)

OpenDocument(f) ==
  /\ phase = "idle" /\ ~IsOpen(f) /\ disk[f] # Absent
  /\ text' = [text EXCEPT ![f] = disk[f]]
  /\ version' = [version EXCEPT ![f] = 1]
  /\ UNCHANGED <<disk, dirty, sets, call, history>>

CloseDocument(f) ==
  /\ phase = "idle" /\ IsOpen(f)
  /\ Close(f)
  /\ IF OutOfStep(f) THEN Disturb ELSE UNCHANGED history
  /\ UNCHANGED <<disk, sets, call>>

EditDocument(f, new) ==
  /\ phase = "idle" /\ IsOpen(f) /\ version[f] < MaxVersion
  /\ SetText(f, new, FALSE)
  /\ Disturb
  /\ UNCHANGED <<sets, call>>

SaveDocument(f) ==
  /\ phase = "idle" /\ IsOpen(f)
  /\ disk' = [disk EXCEPT ![f] = text[f]]
  /\ dirty' = dirty \ {f}
  /\ UNCHANGED <<text, version, sets, call, history>>

\* Another process writes or removes a file, at any moment.
WriteOutside(f, new) ==
  /\ disk[f] # new
  /\ disk' = [disk EXCEPT ![f] = new]
  /\ foreseen' = FALSE
  /\ Disturb
  /\ UNCHANGED <<text, version, dirty, sets, phase, current, operations, position,
                 pending, options>>

-----------------------------------------------------------------------------
(* ChangeSetService.                                                       *)

Create(ops) ==
  /\ phase = "idle" /\ nextId <= MaxChangeSets
  /\ status' = [status EXCEPT ![nextId] = "Pending"]
  /\ edit' = [edit EXCEPT ![nextId] = ops]
  /\ nextId' = nextId + 1
  /\ UNCHANGED <<files, inverse, call, history>>

\* Approve and Reject look at nothing but the existence of the set.
Decide(id, decision) ==
  /\ phase = "idle" /\ status[id] # "None"
  /\ status' = [status EXCEPT ![id] = decision]
  /\ UNCHANGED <<files, nextId, edit, inverse, call, history>>

\* A call that passes its early returns starts with the operations in ops.
Begin(id, ops, chosen) ==
  /\ "preflight" \in chosen => Preflight(ops)
  /\ current' = id
  /\ operations' = ops
  /\ position' = 1
  /\ options' = chosen

ApplyApproved(id, chosen) ==
  /\ phase = "idle" /\ status[id] = "Approved"
  /\ \A f \in File : version[f] <= MaxVersion
  /\ Begin(id, edit[id], chosen)
  /\ phase' = "apply"
  /\ pending' = InverseEdit(edit[id])
  /\ foreseen' = ("preflight" \in chosen /\ Foreseeable(edit[id]))
  /\ IF InStep(edit[id])
       THEN undisturbed' = id /\ before' = [f \in File |-> ReadText(f)]
       ELSE Disturb
  /\ UNCHANGED <<files, sets>>

UndoApplied(id, chosen) ==
  /\ phase = "idle" /\ status[id] = "Applied" /\ inverse[id] # <<>>
  /\ \A f \in File : version[f] <= 2 * MaxVersion
  /\ Begin(id, inverse[id], chosen)
  /\ phase' = "undo"
  /\ UNCHANGED <<files, sets, pending, foreseen, history>>

\* ApplyOperation, one action per kind of operation.
Running == phase # "idle" /\ position <= Len(operations)
Operation == operations[position]
Saving == "save_after_apply" \in options

Leave ==
  /\ phase' = "idle" /\ current' = 0
  /\ operations' = <<>> /\ position' = 1 /\ pending' = <<>>
  /\ options' = {} /\ foreseen' = FALSE

Performed ==
  /\ position' = position + 1
  /\ IF undisturbed = current THEN UNCHANGED history ELSE Disturb
  /\ UNCHANGED <<sets, phase, current, operations, pending, options, foreseen>>

CreateFile ==
  /\ Running /\ Operation.kind = "CreateFile" /\ Applicable(Operation)
  /\ disk' = [disk EXCEPT ![Operation.file] = Operation.replacement]
  /\ UNCHANGED <<text, version, dirty>>
  /\ Performed

DeleteFile ==
  /\ Running /\ Operation.kind = "DeleteFile" /\ Applicable(Operation)
  /\ disk' = [disk EXCEPT ![Operation.file] = Absent]
  /\ Close(Operation.file)
  /\ Performed

\* The document of the old name is closed, saved or not.
RenameFile ==
  /\ Running /\ Operation.kind = "RenameFile" /\ Applicable(Operation)
  /\ disk' = [disk EXCEPT ![Operation.file] = Absent,
                          ![Operation.target] = disk[Operation.file]]
  /\ Close(Operation.file)
  /\ Performed

EditText ==
  /\ Running /\ Operation.kind = "EditText" /\ Applicable(Operation)
  /\ SetText(Operation.file, Edited[ReadText(Operation.file)], Saving)
  /\ Performed

ReplaceDocument ==
  /\ Running /\ Operation.kind = "ReplaceFile" /\ Applicable(Operation)
  /\ IsOpen(Operation.file)
  /\ SetText(Operation.file, Operation.replacement, Saving)
  /\ Performed

ReplaceOnDisk ==
  /\ Running /\ Operation.kind = "ReplaceFile" /\ Applicable(Operation)
  /\ ~IsOpen(Operation.file)
  /\ disk' = [disk EXCEPT ![Operation.file] = Operation.replacement]
  /\ UNCHANGED <<text, version, dirty>>
  /\ Performed

\* Any failure returns at once: the operations before it stay in effect, the
\* set keeps its status and no inverse is stored.
Abandon == Leave /\ UNCHANGED sets

\* A test fails.  A text edit has opened its document by then.
Conflict ==
  /\ Running /\ ~Applicable(Operation)
  /\ IF Operation.kind = "EditText" /\ ~IsOpen(Operation.file)
          /\ disk[Operation.file] # Absent
       THEN /\ text' = [text EXCEPT ![Operation.file] = disk[Operation.file]]
            /\ version' = [version EXCEPT ![Operation.file] = 1]
            /\ UNCHANGED <<disk, dirty>>
       ELSE UNCHANGED files
  /\ Abandon
  /\ UNCHANGED history

\* The file system refuses.  A document that was to be saved has its new text
\* by then.
FailedWrite ==
  /\ Running /\ Applicable(Operation)
  /\ Operation.kind = "EditText" => Saving
  /\ Operation.kind = "ReplaceFile" /\ IsOpen(Operation.file) => Saving
  /\ \/ /\ Operation.kind = "EditText"
        /\ SetText(Operation.file, Edited[ReadText(Operation.file)], FALSE)
     \/ /\ Operation.kind = "ReplaceFile" /\ IsOpen(Operation.file)
        /\ SetText(Operation.file, Operation.replacement, FALSE)
     \/ /\ Operation.kind # "EditText"
        /\ ~(Operation.kind = "ReplaceFile" /\ IsOpen(Operation.file))
        /\ UNCHANGED files
  /\ Abandon
  /\ Disturb

\* Mutant: the inverse edit is not replaced by a second application.
FinishApplyOnce ==
  /\ phase = "apply" /\ position > Len(operations)
  /\ inverse' = [inverse EXCEPT ![current] = IF @ = <<>> THEN pending ELSE @]
  /\ status' = [status EXCEPT ![current] = "Applied"]
  /\ Leave
  /\ UNCHANGED <<files, nextId, edit, history>>
FinishApply ==
  /\ phase = "apply" /\ position > Len(operations)
  /\ inverse' = [inverse EXCEPT ![current] = pending]
  /\ status' = [status EXCEPT ![current] = "Applied"]
  /\ Leave
  /\ UNCHANGED <<files, nextId, edit, history>>

FinishUndo ==
  /\ phase = "undo" /\ position > Len(operations)
  /\ status' = [status EXCEPT ![current] = "Undone"]
  /\ Leave
  /\ UNCHANGED <<files, nextId, edit, inverse, history>>

-----------------------------------------------------------------------------
User(f) ==
  \/ OpenDocument(f)
  \/ CloseDocument(f)
  \/ SaveDocument(f)
  \/ \E new \in Text : EditDocument(f, new)
  \/ \E new \in Text \cup {Absent} : WriteOutside(f, new)

Client(id) ==
  \/ Decide(id, "Approved")
  \/ Decide(id, "Rejected")
  \/ \E chosen \in SUBSET ChangeSetApplyOptions :
       ApplyApproved(id, chosen) \/ UndoApplied(id, chosen)

ApplyOperation ==
  \/ CreateFile
  \/ DeleteFile
  \/ RenameFile
  \/ EditText
  \/ ReplaceDocument
  \/ ReplaceOnDisk
  \/ Conflict
  \/ FailedWrite

Next ==
  \/ \E f \in File : User(f)
  \/ \E ops \in Edits : Create(ops)
  \/ \E id \in ChangeSetId : Client(id)
  \/ ApplyOperation
  \/ FinishApply
  \/ FinishUndo

Spec == Init /\ [][Next]_vars

-----------------------------------------------------------------------------
(* What the change set service promises.                                   *)

\* Every variable keeps the shape of the C++ member it stands for.
TypeOK ==
  /\ disk \in [File -> Text \cup {Absent}]
  /\ text \in [File -> Text \cup {Absent}]
  /\ version \in [File -> Nat]
  /\ dirty \in SUBSET File
  /\ nextId \in 1 .. MaxChangeSets + 1
  /\ status \in [ChangeSetId -> ChangeSetStatus]
  /\ edit \in [ChangeSetId -> Seq(WorkspaceEditOperation)]
  /\ inverse \in [ChangeSetId -> Seq(WorkspaceEditOperation)]
  /\ phase \in {"idle", "apply", "undo"}
  /\ current \in ChangeSetId \cup {0}
  /\ operations \in Seq(WorkspaceEditOperation)
  /\ position \in Nat \ {0}
  /\ pending \in Seq(WorkspaceEditOperation)
  /\ options \in SUBSET ChangeSetApplyOptions
  /\ foreseen \in BOOLEAN
  /\ undisturbed \in ChangeSetId \cup {0}
  /\ before \in [File -> Text \cup {Absent}]

\* What an undo may be relied on for: when nobody but the change set touched
\* the workspace between the start of its application and the end of its undo,
\* and no file it creates, deletes or renames was open with a buffer of its
\* own, every file and document reads as it did before.  It needs edits whose
\* new names are fresh.
UndoRestores ==
  undisturbed # 0 /\ status[undisturbed] = "Undone" =>
    \A f \in File : ReadText(f) = before[f]

\* The edits an undo is good for: the new name of a renamed file occurs in no
\* other operation.  (The inverse of a text edit or a replacement under the new
\* name is made from what is read there before the rename, or is undone in a
\* buffer that the rename back throws away.)
NewNamesAreFresh ==
  \A ops \in Edits : \A i, j \in DOMAIN ops :
    ops[i].kind = "RenameFile" /\ i # j => ops[i].target \notin Touched(ops[j])

\* What preflight may be relied on for: an application that asked for it and
\* passed it runs to its end, if the operations work on different files, a file
\* to be deleted is on disk, a text edit of a closed document expects no version
\* (or 1), no other process writes a file meanwhile, and the file system does
\* not refuse.  Without the conditions on the edit it says nothing, though nobody
\* interferes: see PreflightDecides.
PreflightPredictsApply ==
  [][foreseen /\ phase' = "idle" => status'[current] = "Applied" \/ FailedWrite]_vars

\* What preflight does not give: that whatever passes it is applied unless
\* somebody interferes.  MCChangeSetsVersions.cfg refutes it with a version
\* expected of a closed document, which preflight does not compare
\* (change_set_service.cpp:403) and the application, having opened the document,
\* does.
PreflightDecides ==
  [][phase = "apply" /\ "preflight" \in options /\ current = undisturbed' /\ phase' = "idle"
     => status'[current] = "Applied"]_vars

\* A change set, when it is applied and when it is undone, replaces or deletes
\* nothing but the text its operation names, whatever was typed, saved or
\* written by others since the set was created or preflighted.
OverwritesOnlyWhatItNames ==
  [][position' = position + 1 /\ Operation.kind \in {"ReplaceFile", "DeleteFile"}
     => ReadText(Operation.file) = Operation.original]_vars

\* A change set that passed preflight and is not applied to its end changes
\* nothing: what was read before is read again when ApplyApproved has returned
\* a failure.  (Agent edits are to be workspace transactions that can be rolled
\* back; the code keeps the operations that succeeded and no inverse.)
FailedApplyChangesNothing ==
  [][phase = "apply" /\ "preflight" \in options /\ current = undisturbed' /\ phase' = "idle"
       /\ status'[current] # "Applied"
     => \A f \in File : ReadText(f)' = before[f]]_vars

\* Text that was never saved is not discarded by a change set, unless the set
\* deletes that very text.  (Conflicts with unsaved buffers are to be detected;
\* the code closes the document of a renamed file without looking at it.)
UnsavedBuffersSurvive ==
  [][\A f \in dirty :
       position' = position + 1 /\ OutOfStep(f) /\ ~IsOpen(f)'
         => ReadText(f) = Operation.original]_vars
=============================================================================
