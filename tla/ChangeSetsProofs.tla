-------------------------- MODULE ChangeSetsProofs --------------------------
(***************************************************************************)
(* Theorems about change sets, for every set of files, texts and edits and *)
(* any number of change sets.                                              *)
(***************************************************************************)
EXTENDS ChangeSets, TLAPS

\* The inverse of an operation is an operation, whatever the workspace holds.
LEMMA InverseTyped ==
  ASSUME TypeOK, NEW op \in WorkspaceEditOperation
  PROVE  Inverse(op) \in WorkspaceEditOperation
<1> USE ChangeSetAssumption DEF TypeOK, WorkspaceEditOperation, Kind
<1>1. TextBefore(op.file) \in Text
  BY DEF TextBefore, ReadText, IsOpen
<1>2. Edited[TextBefore(op.file)] \in Text
  BY <1>1
<1>3. InverseKind[op.kind] \in Kind
  BY DEF InverseKind
<1>4. op.file \in File /\ op.target \in File
  OBVIOUS
<1> QED
  BY <1>1, <1>2, <1>3, <1>4 DEF Inverse, InverseRecord

\* The inverse of an edit is an edit of the same length.
LEMMA InverseEditTyped ==
  ASSUME TypeOK, NEW ops \in Seq(WorkspaceEditOperation)
  PROVE  InverseEdit(ops) \in Seq(WorkspaceEditOperation)
<1>1. ASSUME NEW i \in 1 .. Len(ops)
      PROVE  Inverse(ops[Len(ops) + 1 - i]) \in WorkspaceEditOperation
  <2>1. Len(ops) + 1 - i \in 1 .. Len(ops)
    OBVIOUS
  <2>2. ops[Len(ops) + 1 - i] \in WorkspaceEditOperation
    BY <2>1
  <2> QED
    BY <2>2, InverseTyped
<1> QED
  BY <1>1 DEF InverseEdit

\* The operation a running call performs next is one of its operations.
LEMMA OperationTyped ==
  ASSUME TypeOK, Running
  PROVE  Operation \in WorkspaceEditOperation
BY DEF TypeOK, Running, Operation

\* A call that returns leaves nothing behind of its own.
LEMMA LeaveTyped ==
  ASSUME Leave
  PROVE  /\ phase' \in {"idle", "apply", "undo"}
         /\ current' \in ChangeSetId \cup {0}
         /\ operations' \in Seq(WorkspaceEditOperation)
         /\ position' \in Nat \ {0}
         /\ pending' \in Seq(WorkspaceEditOperation)
         /\ options' \in SUBSET ChangeSetApplyOptions
         /\ foreseen' \in BOOLEAN
<1>1. foreseen' \in BOOLEAN
  BY DEF Leave
<1>2. <<>> \in Seq(WorkspaceEditOperation)
  OBVIOUS
<1> QED BY <1>1, <1>2 DEF Leave

\* A document that is given a text is typed, on disk too when it is saved.
LEMMA SetTextTyped ==
  ASSUME TypeOK, NEW f \in File, NEW new \in Text, NEW saved, SetText(f, new, saved)
  PROVE  /\ disk' \in [File -> Text \cup {Absent}]
         /\ text' \in [File -> Text \cup {Absent}]
         /\ version' \in [File -> Nat]
         /\ dirty' \in SUBSET File
BY DEF TypeOK, SetText, IsOpen

\* What an operation that succeeds leaves alone.
LEMMA PerformedTyped ==
  ASSUME TypeOK, Performed
  PROVE  /\ position' \in Nat \ {0}
         /\ undisturbed' \in ChangeSetId \cup {0}
         /\ before' \in [File -> Text \cup {Absent}]
         /\ UNCHANGED <<nextId, status, edit, inverse, phase, current, operations,
                        pending, options, foreseen>>
BY DEF TypeOK, Performed, Disturb, Nothing, history, sets

-----------------------------------------------------------------------------
\* Every state of the service and of the documents has the shape of the C++
\* members, whatever edits are applied in whatever order.
THEOREM TypeCorrect == Spec => []TypeOK
<1>0. <<>> \in Seq(WorkspaceEditOperation)
  OBVIOUS
<1>1. Init => TypeOK
  <2>1. Init => foreseen \in BOOLEAN
    BY DEF Init
  <2>2. Init => nextId \in 1 .. MaxChangeSets + 1 /\ position \in Nat \ {0}
    BY ChangeSetAssumption DEF Init
  <2> QED
    BY <1>0, <2>1, <2>2, ChangeSetAssumption
    DEF Init, TypeOK, ChangeSetStatus, Nothing, ChangeSetId
<1>2. TypeOK /\ [Next]_vars => TypeOK'
  <2> SUFFICES ASSUME TypeOK, [Next]_vars PROVE TypeOK'
    OBVIOUS
  <2> USE ChangeSetAssumption DEF TypeOK, ChangeSetStatus, ChangeSetId
  <2>1. CASE UNCHANGED vars
    BY <2>1 DEF vars, files, sets, call, history
  <2>2. ASSUME NEW f \in File, User(f) PROVE TypeOK'
    <3> USE DEF files, sets, call, history, Disturb, Nothing, IsOpen
    <3>1. CASE OpenDocument(f)
      BY <3>1 DEF OpenDocument
    <3>2. CASE CloseDocument(f)
      BY <3>2 DEF CloseDocument, Close
    <3>3. CASE SaveDocument(f)
      BY <3>3 DEF SaveDocument
    <3>4. ASSUME NEW new \in Text, EditDocument(f, new) PROVE TypeOK'
      BY <3>4 DEF EditDocument, SetText
    <3>5. ASSUME NEW new \in Text \cup {Absent}, WriteOutside(f, new) PROVE TypeOK'
      BY <3>5 DEF WriteOutside
    <3> QED
      BY <2>2, <3>1, <3>2, <3>3, <3>4, <3>5 DEF User
  <2>3. ASSUME NEW ops \in Edits, Create(ops) PROVE TypeOK'
    BY <2>3 DEF Create, files, call, history
  <2>4. ASSUME NEW id \in ChangeSetId, Client(id) PROVE TypeOK'
    <3>1. ASSUME NEW decision \in {"Approved", "Rejected"}, Decide(id, decision)
          PROVE  TypeOK'
      BY <3>1 DEF Decide, files, call, history
    <3>2. ASSUME NEW chosen \in SUBSET ChangeSetApplyOptions,
                 ApplyApproved(id, chosen)
          PROVE  TypeOK'
      <4>1. InverseEdit(edit[id]) \in Seq(WorkspaceEditOperation)
        BY InverseEditTyped
      <4>2. [f \in File |-> ReadText(f)] \in [File -> Text \cup {Absent}]
        BY DEF ReadText, IsOpen
      <4> QED
        BY <3>2, <4>1, <4>2, SMTT(30)
        DEF ApplyApproved, Begin, files, sets, Disturb, Nothing
    <3>3. ASSUME NEW chosen \in SUBSET ChangeSetApplyOptions,
                 UndoApplied(id, chosen)
          PROVE  TypeOK'
      BY <3>3 DEF UndoApplied, Begin, files, sets, history
    <3> QED
      BY <2>4, <3>1, <3>2, <3>3 DEF Client
  <2>5. CASE ApplyOperation
    <3>1. Running
      BY <2>5 DEF ApplyOperation, CreateFile, DeleteFile, RenameFile, EditText,
                  ReplaceDocument, ReplaceOnDisk, Conflict, FailedWrite
    <3> DEFINE op == Operation
    <3>2. op \in WorkspaceEditOperation
      BY <3>1, OperationTyped
    <3>3. /\ op.file \in File /\ op.target \in File
          /\ op.original \in Text /\ op.replacement \in Text
      BY <3>2 DEF WorkspaceEditOperation
    <3>4. ASSUME Applicable(op), op.kind = "EditText"
          PROVE  Edited[ReadText(op.file)] \in Text
      BY <3>3, <3>4 DEF Applicable, PreflightOperation, ReadText, IsOpen
    <3> HIDE DEF op
    <3> USE DEF op, files, sets, history, Disturb, Nothing, IsOpen
    <3>5. CASE CreateFile
      BY <3>3, <3>5, PerformedTyped DEF CreateFile
    <3>6. CASE DeleteFile
      BY <3>3, <3>6, PerformedTyped DEF DeleteFile, Close
    <3>7. CASE RenameFile
      <4>1. [disk EXCEPT ![op.file] = Absent, ![op.target] = disk[op.file]]
              \in [File -> Text \cup {Absent}]
        BY <3>3
      <4>2. disk' \in [File -> Text \cup {Absent}]
        BY <3>7, <4>1 DEF RenameFile
      <4>3. /\ text' \in [File -> Text \cup {Absent}]
            /\ version' \in [File -> Nat]
            /\ dirty' \in SUBSET File
        BY <3>7 DEF RenameFile, Close
      <4>4. Performed
        BY <3>7 DEF RenameFile
      <4> QED
        BY <4>2, <4>3, <4>4, PerformedTyped
    <3>8. CASE EditText
      <4>1. Performed /\ SetText(op.file, Edited[ReadText(op.file)], Saving)
        BY <3>8 DEF EditText
      <4>2. Edited[ReadText(op.file)] \in Text
        BY <3>4, <3>8 DEF EditText
      <4> QED
        BY <3>3, <4>1, <4>2, SetTextTyped, PerformedTyped
    <3>9. CASE ReplaceDocument
      <4>1. Performed /\ SetText(op.file, op.replacement, Saving)
        BY <3>9 DEF ReplaceDocument
      <4> QED
        BY <3>3, <4>1, SetTextTyped, PerformedTyped
    <3>10. CASE ReplaceOnDisk
      BY <3>3, <3>10, PerformedTyped DEF ReplaceOnDisk
    <3>11. CASE Conflict
      <4>1. /\ disk' \in [File -> Text \cup {Absent}]
            /\ text' \in [File -> Text \cup {Absent}]
            /\ version' \in [File -> Nat]
            /\ dirty' \in SUBSET File
        <5>1. CASE UNCHANGED files
          BY <5>1
        <5>2. CASE /\ text' = [text EXCEPT ![op.file] = disk[op.file]]
                   /\ version' = [version EXCEPT ![op.file] = 1]
                   /\ UNCHANGED <<disk, dirty>>
          BY <3>3, <5>2
        <5> QED
          BY <3>11, <5>1, <5>2 DEF Conflict
      <4>2. Leave /\ UNCHANGED <<nextId, status, edit, inverse, undisturbed, before>>
        BY <3>11 DEF Conflict, Abandon
      <4> QED
        BY <4>1, <4>2, LeaveTyped
    <3>12. CASE FailedWrite
      <4>1. /\ disk' \in [File -> Text \cup {Absent}]
            /\ text' \in [File -> Text \cup {Absent}]
            /\ version' \in [File -> Nat]
            /\ dirty' \in SUBSET File
        <5>1. CASE UNCHANGED files
          BY <5>1
        <5>2. \/ UNCHANGED files
              \/ \E new \in Text : SetText(op.file, new, FALSE)
          BY <3>3, <3>4, <3>12 DEF FailedWrite
        <5> QED
          BY <3>3, <5>1, <5>2, SetTextTyped
      <4>2. /\ Leave /\ UNCHANGED <<nextId, status, edit, inverse>>
            /\ undisturbed' = 0 /\ before' = Nothing
        BY <3>12 DEF FailedWrite, Abandon
      <4> QED
        BY <4>1, <4>2, LeaveTyped
    <3> QED
      BY <2>5, <3>5, <3>6, <3>7, <3>8, <3>9, <3>10, <3>11, <3>12 DEF ApplyOperation
  <2>6. CASE FinishApply
    BY LeaveTyped, <2>6 DEF FinishApply, files, history
  <2>7. CASE FinishUndo
    BY LeaveTyped, <2>7 DEF FinishUndo, files, history
  <2> QED
    BY <2>1, <2>2, <2>3, <2>4, <2>5, <2>6, <2>7 DEF Next
<1> QED
  BY <1>1, <1>2, PTL DEF Spec

-----------------------------------------------------------------------------
\* A change set replaces and deletes nothing but the text its operation names:
\* only the actions that perform an operation advance the position, and each of
\* them tests the operation again.
THEOREM NothingElseOverwritten == Spec => OverwritesOnlyWhatItNames
<1> DEFINE Advance ==
      position' = position + 1 /\ Operation.kind \in {"ReplaceFile", "DeleteFile"}
        => ReadText(Operation.file) = Operation.original
<1>1. TypeOK /\ [Next]_vars => [Advance]_vars
  <2> SUFFICES ASSUME TypeOK, Next, position' = position + 1,
                      Operation.kind \in {"ReplaceFile", "DeleteFile"}
               PROVE  ReadText(Operation.file) = Operation.original
    OBVIOUS
  <2>0. position \in Nat /\ position # 0
    BY DEF TypeOK
  <2>1. CASE ApplyOperation
    <3>1. CASE Conflict \/ FailedWrite
      <4>1. position' = 1
        BY <3>1 DEF Conflict, FailedWrite, Abandon, Leave
      <4> QED
        BY <2>0, <4>1
    <3>2. CASE ~(Conflict \/ FailedWrite)
      <4>1. Applicable(Operation)
        BY <2>1, <3>2 DEF ApplyOperation, CreateFile, DeleteFile, RenameFile,
                          EditText, ReplaceDocument, ReplaceOnDisk
      <4> QED
        BY <4>1 DEF Applicable, PreflightOperation
    <3> QED
      BY <3>1, <3>2
  <2>2. ASSUME NEW f \in File, User(f) PROVE FALSE
    <3>1. UNCHANGED <<phase, current, operations, position, pending, options>>
      BY <2>2 DEF User, OpenDocument, CloseDocument, SaveDocument, EditDocument,
                  WriteOutside, call
    <3> QED
      BY <2>0, <3>1
  <2>3. ASSUME NEW ops \in Edits, Create(ops) PROVE FALSE
    BY <2>0, <2>3 DEF Create, call
  <2>4. ASSUME NEW id \in ChangeSetId, Client(id) PROVE FALSE
    BY <2>0, <2>4 DEF Client, Decide, ApplyApproved, UndoApplied, Begin, call
  <2>5. CASE FinishApply \/ FinishUndo
    BY <2>0, <2>5 DEF FinishApply, FinishUndo, Leave
  <2> QED
    BY <2>1, <2>2, <2>3, <2>4, <2>5 DEF Next
<1> QED
  BY <1>1, TypeCorrect, PTL DEF Spec, OverwritesOnlyWhatItNames

-----------------------------------------------------------------------------
(* Preflight predicts the application.                                     *)

\* An application that preflight has foreseen has no operation before it that
\* will not be accepted, and none that touches the files of another.
Apart(ops) ==
  \A i, j \in DOMAIN ops : i # j => Touched(ops[i]) \cap Touched(ops[j]) = {}

Predicted ==
  /\ phase # "idle" => current \in ChangeSetId
  /\ foreseen => /\ phase = "apply" /\ Apart(operations)
                 /\ \A i \in position .. Len(operations) : Applicable(operations[i])

\* Whether an operation is accepted depends on nothing but the files it touches.
LEMMA ApplicableFrame ==
  ASSUME NEW op \in WorkspaceEditOperation, Applicable(op),
         \A f \in Touched(op) : /\ disk'[f] = disk[f]
                                /\ text'[f] = text[f]
                                /\ version'[f] = version[f]
  PROVE  Applicable(op)'
<1>1. op.file \in Touched(op) /\ (op.kind = "RenameFile" => op.target \in Touched(op))
  BY DEF Touched
<1>2. PreflightOperation(op)'
  BY <1>1 DEF Applicable, PreflightOperation, ReadText, IsOpen, VersionExpected
<1> QED
  BY <1>1, <1>2 DEF Applicable, IsOpen

\* An operation of an unchanged edit stays so in unchanged files.
LEMMA ApplicableSame ==
  ASSUME NEW i, Applicable(operations[i]), UNCHANGED <<disk, text, version, operations>>
  PROVE  Applicable(operations[i])'
BY DEF Applicable, PreflightOperation, ReadText, IsOpen, VersionExpected

\* An operation that is performed changes no file but those it touches.
LEMMA OthersUntouched ==
  ASSUME TypeOK, ApplyOperation, phase' # "idle", NEW f \in File,
         f \notin Touched(Operation)
  PROVE  disk'[f] = disk[f] /\ text'[f] = text[f] /\ version'[f] = version[f]
<1> USE DEF TypeOK, Touched
<1>1. CASE CreateFile
  BY <1>1 DEF CreateFile
<1>2. CASE DeleteFile
  BY <1>2 DEF DeleteFile, Close
<1>3. CASE RenameFile
  BY <1>3 DEF RenameFile, Close
<1>4. CASE EditText
  BY <1>4 DEF EditText, SetText
<1>5. CASE ReplaceDocument
  BY <1>5 DEF ReplaceDocument, SetText
<1>6. CASE ReplaceOnDisk
  BY <1>6 DEF ReplaceOnDisk
<1>7. CASE Conflict \/ FailedWrite
  BY <1>7 DEF Conflict, FailedWrite, Abandon, Leave
<1> QED
  BY <1>1, <1>2, <1>3, <1>4, <1>5, <1>6, <1>7 DEF ApplyOperation

LEMMA PerformedAdvances ==
  ASSUME ApplyOperation, phase' # "idle" PROVE Running /\ Performed
BY DEF ApplyOperation, CreateFile, DeleteFile, RenameFile, EditText, ReplaceDocument,
       ReplaceOnDisk, Conflict, FailedWrite, Abandon, Leave

\* While an application runs that preflight has foreseen, every operation it has
\* left is accepted.
THEOREM PredictionHolds == Spec => []Predicted
<1>1. Init => Predicted
  BY DEF Init, Predicted
<1>2. TypeOK /\ TypeOK' /\ Predicted /\ [Next]_vars => Predicted'
  <2> SUFFICES ASSUME TypeOK, TypeOK', Predicted, [Next]_vars PROVE Predicted'
    OBVIOUS
  <2>1. CASE UNCHANGED vars
    <3>1. UNCHANGED <<disk, text, version, phase, current, operations, position, foreseen>>
      BY <2>1 DEF vars, files, call
    <3>2. Apart(operations) => Apart(operations)'
      BY <3>1 DEF Apart, Touched
    <3> QED
      BY <3>1, <3>2, ApplicableSame DEF Predicted
  <2>2. CASE phase' = "idle"
    <3>1. foreseen' => foreseen /\ UNCHANGED phase
      BY <2>2 DEF Next, User, OpenDocument, CloseDocument, SaveDocument, EditDocument,
                  WriteOutside, Create, Client, Decide, ApplyApproved, UndoApplied,
                  ApplyOperation, CreateFile, DeleteFile, RenameFile, EditText,
                  ReplaceDocument, ReplaceOnDisk, Performed, Conflict, FailedWrite,
                  Abandon, FinishApply, FinishUndo, Leave, vars, call
    <3> QED BY <2>2, <3>1 DEF Predicted
  <2>3. ASSUME NEW f \in File, User(f), phase' # "idle" PROVE Predicted'
    <3>1. PICK new : WriteOutside(f, new)
      BY <2>3 DEF User, OpenDocument, CloseDocument, SaveDocument, EditDocument, call
    <3> QED
      BY <3>1 DEF WriteOutside, Predicted
  <2>4. ASSUME NEW ops \in Edits, Create(ops), phase' # "idle" PROVE FALSE
    BY <2>4 DEF Create, call
  <2>5. ASSUME NEW id \in ChangeSetId, Client(id), phase' # "idle" PROVE Predicted'
    <3>1. CASE phase' = "apply"
      <4>1. PICK chosen \in SUBSET ChangeSetApplyOptions : ApplyApproved(id, chosen)
        BY <2>5, <3>1 DEF Client, Decide, UndoApplied, call
      <4>2. /\ current' = id /\ position' = 1 /\ operations' = edit[id]
            /\ UNCHANGED <<disk, text, version>>
            /\ foreseen' => Preflight(edit[id]) /\ Foreseeable(edit[id])
        BY <4>1 DEF ApplyApproved, Begin, files
      <4>3. DOMAIN edit[id] = 1 .. Len(edit[id])
        BY DEF TypeOK
      <4>4. ASSUME foreseen', NEW i \in position' .. Len(operations')
            PROVE  Applicable(operations[i])'
        <5>1. i \in DOMAIN edit[id] /\ edit[id][i] \in WorkspaceEditOperation
          BY <4>2, <4>3, <4>4 DEF TypeOK
        <5>2. Applicable(edit[id][i])
          BY <4>2, <4>4, <5>1 DEF Preflight, Foreseeable, Applicable
        <5>3. operations'[i] = edit[id][i]
          BY <4>2
        <5> QED
          BY <4>2, <5>2, <5>3
          DEF Applicable, PreflightOperation, ReadText, IsOpen, VersionExpected
      <4>5. foreseen' => Apart(operations)'
        BY <4>2 DEF Foreseeable, Apart, Touched
      <4> QED
        BY <3>1, <4>2, <4>4, <4>5 DEF Predicted
    <3>2. CASE phase' # "apply"
      <4>1. PICK chosen \in SUBSET ChangeSetApplyOptions : UndoApplied(id, chosen)
        BY <2>5, <3>2 DEF Client, Decide, ApplyApproved, call
      <4> QED
        BY <3>2, <4>1 DEF UndoApplied, Begin, Predicted
    <3> QED
      BY <3>1, <3>2
  <2>6. CASE ApplyOperation /\ phase' # "idle"
    <3>1. Running /\ Performed
      BY <2>6, PerformedAdvances
    <3>2. /\ position' = position + 1 /\ position <= Len(operations)
          /\ UNCHANGED <<phase, current, operations, foreseen>>
      BY <3>1 DEF Performed, Running
    <3>3. Apart(operations) => Apart(operations)'
      BY <3>2 DEF Apart, Touched
    <3>4. ASSUME foreseen', NEW i \in position' .. Len(operations')
          PROVE  Applicable(operations[i])'
      <4>1. /\ position \in DOMAIN operations /\ i \in DOMAIN operations
            /\ i # position /\ i \in position .. Len(operations)
            /\ operations[i] \in WorkspaceEditOperation
        BY <3>2, <3>4, SMTT(30) DEF TypeOK
      <4>2. Applicable(operations[i])
        BY <3>2, <3>4, <4>1 DEF Predicted
      <4>3. Touched(operations[i]) \cap Touched(Operation) = {}
        BY <3>2, <3>4, <4>1 DEF Predicted, Apart, Operation
      <4>4. Touched(operations[i]) \subseteq File
        BY <4>1 DEF Touched, WorkspaceEditOperation
      <4>5. Applicable(operations[i])'
        <5> DEFINE op == operations[i]
        <5>1. \A f \in Touched(op) : /\ disk'[f] = disk[f]
                                     /\ text'[f] = text[f]
                                     /\ version'[f] = version[f]
          BY <2>6, <4>3, <4>4, OthersUntouched
        <5>2. op' = op
          BY <3>2
        <5> HIDE DEF op
        <5> QED
          BY <4>1, <4>2, <5>1, <5>2, ApplicableFrame DEF op
      <4> QED
        BY <4>5
    <3> QED
      BY <3>2, <3>3, <3>4 DEF Predicted
  <2>7. CASE FinishApply \/ FinishUndo
    BY <2>7 DEF FinishApply, FinishUndo, Leave, Predicted
  <2> QED
    BY <2>1, <2>2, <2>3, <2>4, <2>5, <2>6, <2>7 DEF Next
<1> QED
  BY <1>1, <1>2, TypeCorrect, PTL DEF Spec

\* What preflight has foreseen is applied to its end: such an application never
\* meets a conflict (ApplyApproved, ApplyOperation).
THEOREM PreflightSuffices == Spec => PreflightPredictsApply
<1> DEFINE Completes ==
      foreseen /\ phase' = "idle" => status'[current] = "Applied" \/ FailedWrite
<1>1. TypeOK /\ Predicted /\ [Next]_vars => [Completes]_vars
  <2> SUFFICES ASSUME TypeOK, Predicted, Next, foreseen, phase' = "idle", ~FailedWrite
               PROVE  status'[current] = "Applied"
    OBVIOUS
  <2>1. phase = "apply" /\ current \in ChangeSetId
    BY DEF Predicted
  <2>2. ASSUME NEW f \in File, User(f) PROVE FALSE
    BY <2>1, <2>2 DEF User, OpenDocument, CloseDocument, SaveDocument, EditDocument,
                WriteOutside, call
  <2>3. ASSUME NEW ops \in Edits, Create(ops) PROVE FALSE
    BY <2>1, <2>3 DEF Create
  <2>4. ASSUME NEW id \in ChangeSetId, Client(id) PROVE FALSE
    BY <2>1, <2>4 DEF Client, Decide, ApplyApproved, UndoApplied
  <2>5. ASSUME ApplyOperation PROVE FALSE
    <3>1. Conflict
      BY <2>1, <2>5 DEF ApplyOperation, CreateFile, DeleteFile, RenameFile, EditText,
                        ReplaceDocument, ReplaceOnDisk, Performed
    <3>2. Running /\ ~Applicable(Operation)
      BY <3>1 DEF Conflict
    <3>3. position \in position .. Len(operations)
      BY <3>2 DEF Running, TypeOK
    <3> QED
      BY <3>2, <3>3 DEF Predicted, Operation
  <2>6. CASE FinishApply
    BY <2>1, <2>6 DEF FinishApply, TypeOK
  <2>7. CASE FinishUndo
    BY <2>1, <2>7 DEF FinishUndo
  <2> QED
    BY <2>2, <2>3, <2>4, <2>5, <2>6, <2>7 DEF Next
<1> QED
  BY <1>1, TypeCorrect, PredictionHolds, PTL DEF Spec, PreflightPredictsApply

-----------------------------------------------------------------------------
(* An undo restores what was read.  Nothing is recorded of the states an    *)
(* application goes through, so the invariant rests on the first operation  *)
(* that touches a file: it has read what the file held before, its inverse  *)
(* is the last one that touches the file, and writes just that.             *)

Moves == {"CreateFile", "DeleteFile", "RenameFile"}

\* The edit creates, removes or renames this file.
Handled(ops, x) == \E i \in DOMAIN ops : ops[i].kind \in Moves /\ x \in Touched(ops[i])

Untouched(ops, n, x) == \A i \in 1 .. n : x \notin Touched(ops[i])

First(ops, i, x) == x \in Touched(ops[i]) /\ Untouched(ops, i - 1, x)

\* What an operation knows of a file it was the first to touch.
Known(op, x, was) ==
  /\ op.kind = "CreateFile" => was[x] = Absent
  /\ op.kind \in {"DeleteFile", "ReplaceFile"} => was[x] = op.original
  /\ op.kind = "EditText" => was[x] # Absent
  /\ op.kind = "RenameFile" /\ x = op.target => was[x] = Absent

\* A renamed file is under its new name, as it was, or no longer there.
Carried(ops, i) ==
  \/ disk[ops[i].target] = Absent
  \/ ~First(ops, i, ops[i].file)
  \/ disk[ops[i].target] = before[ops[i].file] /\ ~OutOfStep(ops[i].target)

\* The first n operations have been performed, and perhaps undone.
Done(ops, n) ==
  \A i \in 1 .. n :
    /\ \A x \in File : First(ops, i, x) => Known(ops[i], x, before)
    /\ ops[i].kind = "RenameFile" => Carried(ops, i)

\* The inverse edit, from what was read when the application began.
InverseGiven(op, was) ==
  LET old == IF was[op.file] = Absent THEN EmptyText ELSE was[op.file]
  IN  IF op.kind = "EditText" THEN InverseRecord(op, Edited[old], old)
                              ELSE InverseRecord(op, op.replacement, op.original)

InverseOf(ops, was) == [i \in 1 .. Len(ops) |-> InverseGiven(ops[Len(ops) + 1 - i], was)]

\* A file that is handled is never open without being on disk.
Backed(ops) == \A x \in File : Handled(ops, x) /\ IsOpen(x) => disk[x] # Absent

Restored(x) == ReadText(x) = before[x]

Applying(ops) ==
  /\ operations = ops
  /\ pending = InverseOf(ops, before)
  /\ Done(ops, position - 1)
  /\ \A x \in File : Untouched(ops, position - 1, x)
       => Restored(x) /\ (Handled(ops, x) => ~OutOfStep(x))

\* The inverses of the first operations are still to come.
Undoing(ops) ==
  \A x \in File : Untouched(ops, Len(ops) + 1 - position, x) => Restored(x)

\* What holds of the set that nobody has interfered with.
Kept(u, ops) ==
  /\ status[u] # "None"
  /\ Backed(ops)
  /\ \A x \in File : Untouched(ops, Len(ops), x) => Restored(x)
  /\ phase = "apply" => Applying(ops)
  /\ status[u] = "Applied" => Done(ops, Len(ops)) /\ inverse[u] = InverseOf(ops, before)
  /\ phase = "undo" /\ current = u => Undoing(ops)
  /\ status[u] = "Undone" => \A x \in File : Restored(x)

\* What a call works on, and which calls may run.
Calls ==
  /\ \A id \in ChangeSetId : /\ edit[id] \in Edits \cup {<<>>}
                             /\ status[id] # "None" => id < nextId
  /\ phase # "idle" => current \in ChangeSetId /\ position <= Len(operations) + 1
  /\ phase = "apply" => /\ status[current] = "Approved"
                        /\ operations = edit[current]
                        /\ undisturbed \in {0, current}
  /\ phase = "undo" => /\ status[current] = "Applied"
                       /\ operations = inverse[current] /\ operations # <<>>
                       /\ undisturbed \notin {0, current} => position = 1

UndoInv ==
  \A u \in ChangeSetId, ops \in Seq(WorkspaceEditOperation) :
    u = undisturbed /\ ops = edit[u] => Kept(u, ops)

LEMMA PerformedKinds ==
  ASSUME ApplyOperation, phase' # "idle"
  PROVE  \/ CreateFile \/ DeleteFile \/ RenameFile \/ EditText
         \/ ReplaceDocument \/ ReplaceOnDisk
BY DEF ApplyOperation, Conflict, FailedWrite, Abandon, Leave

\* What an operation that succeeds has seen of the files it touches, and does
\* to them.
LEMMA Effects ==
  ASSUME TypeOK, ApplyOperation, phase' # "idle", NEW op, op = Operation
  PROVE  /\ op \in WorkspaceEditOperation
         /\ \A x \in File \ Touched(op) : disk'[x] = disk[x] /\ text'[x] = text[x]
         /\ op.kind = "CreateFile" =>
              /\ disk[op.file] = Absent
              /\ disk'[op.file] = op.replacement /\ text'[op.file] = text[op.file]
         /\ op.kind = "DeleteFile" =>
              /\ ReadText(op.file) = op.original
              /\ disk'[op.file] = Absent /\ text'[op.file] = Absent
         /\ op.kind = "RenameFile" =>
              /\ op.file # op.target
              /\ disk[op.file] # Absent /\ disk[op.target] = Absent
              /\ disk'[op.file] = Absent /\ text'[op.file] = Absent
              /\ disk'[op.target] = disk[op.file] /\ text'[op.target] = text[op.target]
         /\ op.kind = "EditText" =>
              /\ ReadText(op.file) # Absent
              /\ disk[op.file] # Absent => disk'[op.file] # Absent
         /\ op.kind = "ReplaceFile" =>
              /\ ReadText(op.file) = op.original
              /\ ReadText(op.file)' = op.replacement
              /\ disk[op.file] # Absent => disk'[op.file] # Absent
<1>1. op \in WorkspaceEditOperation /\ Applicable(op) /\ PreflightOperation(op)
  BY PerformedKinds, OperationTyped
  DEF CreateFile, DeleteFile, RenameFile, EditText, ReplaceDocument, ReplaceOnDisk, Applicable
<1>2. \A x \in File \ Touched(op) : disk'[x] = disk[x] /\ text'[x] = text[x]
  BY OthersUntouched
<1>3. /\ op.file \in File /\ op.target \in File
      /\ op.original \in Text /\ op.replacement \in Text
  BY <1>1 DEF WorkspaceEditOperation
<1> USE ChangeSetAssumption DEF TypeOK
<1>4. CASE CreateFile
  BY <1>1, <1>2, <1>3, <1>4 DEF CreateFile, PreflightOperation
<1>5. CASE DeleteFile
  BY <1>1, <1>2, <1>3, <1>5 DEF DeleteFile, Close, PreflightOperation
<1>6. CASE RenameFile
  BY <1>1, <1>2, <1>3, <1>6 DEF RenameFile, Close, PreflightOperation
<1>7. CASE EditText
  <2>1. Edited[ReadText(op.file)] \in Text
    BY <1>1, <1>3, <1>7 DEF EditText, PreflightOperation, ReadText, IsOpen
  <2> QED
    BY <1>1, <1>2, <1>3, <1>7, <2>1 DEF EditText, SetText, PreflightOperation
<1>8. CASE ReplaceDocument
  BY <1>1, <1>2, <1>3, <1>8
  DEF ReplaceDocument, SetText, PreflightOperation, ReadText, IsOpen
<1>9. CASE ReplaceOnDisk
  BY <1>1, <1>2, <1>3, <1>9 DEF ReplaceOnDisk, PreflightOperation, ReadText, IsOpen
<1> QED
  BY <1>4, <1>5, <1>6, <1>7, <1>8, <1>9, PerformedKinds

Fresh(ops) ==
  \A i, j \in DOMAIN ops :
    ops[i].kind = "RenameFile" /\ i # j => ops[i].target \notin Touched(ops[j])

\* No operation opens a file that is not on disk.
LEMMA BackedStep ==
  ASSUME TypeOK, ApplyOperation, phase' # "idle", NEW ops, Backed(ops)
  PROVE  Backed(ops)'
<1> DEFINE op == Operation
<1>1. PICK o : o = op
  OBVIOUS
<1> HIDE DEF op
<1>2. o = Operation
  BY <1>1 DEF op
<1> SUFFICES ASSUME NEW x \in File, Handled(ops, x), text'[x] # Absent
             PROVE  disk'[x] # Absent
  BY DEF Backed, IsOpen, Handled, Touched
<1>3. text[x] # Absent => disk[x] # Absent
  BY DEF Backed, IsOpen
<1>4. CASE x \notin Touched(o)
  BY <1>2, <1>3, <1>4, Effects
<1>5. CASE x \in Touched(o) /\ o.kind = "RenameFile"
  <2>1. x = o.file \/ x = o.target
    BY <1>5 DEF Touched
  <2> QED
    BY <2>1, <1>2, <1>5, Effects
<1>6. CASE x \in Touched(o) /\ o.kind # "RenameFile"
  <2>1. x = o.file
    BY <1>6 DEF Touched
  <2>2. /\ o \in WorkspaceEditOperation
        /\ o.kind = "CreateFile" => disk'[x] = o.replacement
        /\ o.kind = "DeleteFile" => text'[x] = Absent
        /\ o.kind = "EditText" =>
             ReadText(x) # Absent /\ (disk[x] # Absent => disk'[x] # Absent)
        /\ o.kind = "ReplaceFile" =>
             ReadText(x) = o.original /\ (disk[x] # Absent => disk'[x] # Absent)
    BY <2>1, <1>2, Effects
  <2>3. o.original # Absent /\ o.replacement # Absent /\ o.kind \in Kind
    BY <2>2, ChangeSetAssumption DEF WorkspaceEditOperation
  <2>4. ReadText(x) # Absent => disk[x] # Absent
    BY <1>3 DEF ReadText, IsOpen
  <2> QED
    BY <2>2, <2>3, <2>4, <1>6 DEF Kind
<1> QED
  BY <1>4, <1>5, <1>6

\* What is read of a file on disk that no buffer hides.
LEMMA ReadingBacked ==
  ASSUME NEW x \in File, IsOpen(x) => disk[x] # Absent, disk[x] = Absent
  PROVE  ReadText(x) = Absent /\ text[x] = Absent
BY DEF ReadText, IsOpen

\* An operation that is applied keeps what an application knows.
LEMMA ApplyStep ==
  ASSUME TypeOK, ApplyOperation, phase' # "idle",
         NEW ops \in Seq(WorkspaceEditOperation), Fresh(ops), Backed(ops), Applying(ops),
         position <= Len(ops), position' = position + 1,
         UNCHANGED <<before, operations, pending>>
  PROVE  Applying(ops)'
<1>0. position \in 1 .. Len(ops) /\ operations = ops
  BY DEF TypeOK, Applying
<1>1. PICK p : p = position
  OBVIOUS
<1>2. PICK o : o = ops[p]
  OBVIOUS
<1>3. o = Operation /\ p \in 1 .. Len(ops) /\ p \in DOMAIN ops /\ p \in Nat
  BY <1>0, <1>1, <1>2 DEF Operation
<1>4. \A x \in File \ Touched(o) : disk'[x] = disk[x] /\ text'[x] = text[x]
  BY <1>3, Effects
<1>5. \A x \in File : Untouched(ops, p - 1, x) => Restored(x) /\ (Handled(ops, x) => ~OutOfStep(x))
  BY <1>1 DEF Applying
<1>6. Done(ops, p - 1)
  BY <1>1 DEF Applying
<1>7. o \in WorkspaceEditOperation /\ o.file \in File /\ o.target \in File
  BY <1>3, Effects DEF WorkspaceEditOperation
<1>8. o.kind \in Moves => \A x \in Touched(o) : Handled(ops, x)
  BY <1>2, <1>3 DEF Handled
<1>9. \A x \in File : Handled(ops, x) /\ disk[x] = Absent => ReadText(x) = Absent /\ text[x] = Absent
  BY ReadingBacked DEF Backed
<1>10. ASSUME NEW x \in File, First(ops, p, x) PROVE Known(o, x, before)
  <2>1. x \in Touched(o) /\ ReadText(x) = before[x]
    BY <1>2, <1>5, <1>10 DEF First, Restored
  <2>2. o.kind # "RenameFile" => x = o.file
    BY <2>1 DEF Touched
  <2>3. /\ o.kind = "CreateFile" => disk[o.file] = Absent
        /\ o.kind \in {"DeleteFile", "ReplaceFile"} => ReadText(o.file) = o.original
        /\ o.kind = "RenameFile" => disk[o.target] = Absent
        /\ o.kind = "EditText" => ReadText(o.file) # Absent
    BY <1>3, Effects
  <2>4. o.kind \in Moves => Handled(ops, x)
    BY <1>8, <2>1
  <2> QED
    BY <2>1, <2>2, <2>3, <2>4, <1>9 DEF Known, Moves
<1>11. ASSUME o.kind = "RenameFile" PROVE Carried(ops, p)'
  <2>1. /\ disk[o.target] = Absent /\ disk'[o.target] = disk[o.file]
        /\ text'[o.target] = text[o.target]
    BY <1>3, <1>11, Effects
  <2>2. Handled(ops, o.file) /\ Handled(ops, o.target)
    BY <1>8, <1>11 DEF Touched, Moves
  <2>3. text'[o.target] = Absent
    BY <2>1, <2>2, <1>9, <1>7
  <2>4. ASSUME First(ops, p, o.file) PROVE disk[o.file] = before[o.file]
    <3>1. Restored(o.file) /\ ~OutOfStep(o.file)
      BY <2>4, <2>2, <1>5, <1>7 DEF First
    <3> QED
      BY <3>1 DEF Restored, OutOfStep, ReadText, IsOpen
  <2> QED
    BY <2>1, <2>3, <2>4, <1>2 DEF Carried, OutOfStep, IsOpen, First, Untouched, Touched
<1>12. Done(ops, p)'
  <2> SUFFICES ASSUME NEW i \in 1 .. p
               PROVE  /\ \A x \in File : First(ops, i, x) => Known(ops[i], x, before)
                      /\ ops[i].kind = "RenameFile" => Carried(ops, i)'
    BY DEF Done, First, Untouched, Touched, Known
  <2>1. CASE i = p
    BY <2>1, <1>10, <1>11, <1>2
  <2>2. CASE i # p
    <3>1. i \in 1 .. p - 1 /\ i \in DOMAIN ops
      BY <2>2, <1>3
    <3>2. \A x \in File : First(ops, i, x) => Known(ops[i], x, before)
      BY <3>1, <1>6 DEF Done
    <3>3. ASSUME ops[i].kind = "RenameFile" PROVE Carried(ops, i)'
      <4>1. Carried(ops, i)
        BY <3>1, <3>3, <1>6 DEF Done
      <4>2. ops[i].target \notin Touched(ops[p])
        BY <3>1, <3>3, <2>2, <1>3 DEF Fresh
      <4>3. ops[i].target \notin Touched(o)
        BY <4>2, <1>2 DEF Touched
      <4>4. ops[i] \in WorkspaceEditOperation
        BY <3>1
      <4>5. ops[i].target \in File
        BY <4>4 DEF WorkspaceEditOperation
      <4> QED
        BY <4>1, <4>3, <4>5, <1>4 DEF Carried, OutOfStep, IsOpen, First, Untouched, Touched
    <3> QED
      BY <3>2, <3>3
  <2> QED
    BY <2>1, <2>2
<1>13. ASSUME NEW x \in File, Untouched(ops, p, x)
       PROVE  Restored(x)' /\ (Handled(ops, x) => ~OutOfStep(x)')
  <2>1. Untouched(ops, p - 1, x) /\ x \notin Touched(ops[p])
    BY <1>13, <1>3 DEF Untouched
  <2>2. x \notin Touched(o)
    BY <2>1, <1>2 DEF Touched
  <2> QED
    BY <2>1, <2>2, <1>4, <1>5 DEF Restored, ReadText, OutOfStep, IsOpen
<1>14. position' - 1 = p
  BY <1>1, <1>3
<1>15. Done(ops, position - 1)' /\ InverseOf(ops, before)' = InverseOf(ops, before)
  BY <1>12, <1>14 DEF InverseOf, InverseGiven, InverseRecord, InverseKind
<1> QED
  BY <1>0, <1>13, <1>14, <1>15 DEF Applying, Untouched, Handled, Touched

\* The inverse of an operation touches what the operation touched.
LEMMA InverseTouches ==
  ASSUME NEW op \in WorkspaceEditOperation, NEW was,
         NEW inv, inv = InverseGiven(op, was)
  PROVE  /\ Touched(inv) = Touched(op)
         /\ inv.kind = InverseKind[op.kind]
         /\ op.kind # "RenameFile" => inv.file = op.file
         /\ op.kind = "RenameFile" => inv.file = op.target /\ inv.target = op.file
         /\ op.kind \in {"DeleteFile", "ReplaceFile"} => inv.replacement = op.original
         /\ op.kind = "EditText" /\ was[op.file] # Absent
              => inv.replacement = was[op.file]
<1>1. op.kind \in Kind
  BY DEF WorkspaceEditOperation
<1>2. /\ inv.kind = InverseKind[op.kind]
      /\ inv.file = IF op.kind = "RenameFile" THEN op.target ELSE op.file
      /\ inv.target = op.file
      /\ op.kind # "EditText" => inv.replacement = op.original
      /\ op.kind = "EditText" /\ was[op.file] # Absent => inv.replacement = was[op.file]
  BY DEF InverseGiven, InverseRecord
<1>3. inv.kind = "RenameFile" <=> op.kind = "RenameFile"
  BY <1>1, <1>2 DEF InverseKind, Kind
<1> QED
  BY <1>2, <1>3 DEF Touched

\* The operation an undo has come to is the inverse of the one it answers.
LEMMA InverseAt ==
  ASSUME NEW ops \in Seq(WorkspaceEditOperation), NEW was,
         NEW p \in 1 .. Len(ops)
  PROVE  /\ Len(ops) + 1 - p \in DOMAIN ops
         /\ InverseOf(ops, was)[p] = InverseGiven(ops[Len(ops) + 1 - p], was)
BY DEF InverseOf

\* An operation that is undone restores the files it was the first to touch.
LEMMA UndoStep ==
  ASSUME TypeOK, ApplyOperation, phase' # "idle",
         NEW ops \in Seq(WorkspaceEditOperation), Fresh(ops), Backed(ops),
         Done(ops, Len(ops)), Undoing(ops), operations = InverseOf(ops, before),
         position <= Len(ops), position' = position + 1, UNCHANGED before
  PROVE  Undoing(ops)' /\ Done(ops, Len(ops))'
<1>0. position \in 1 .. Len(ops) /\ Len(ops) \in Nat
  BY DEF TypeOK
<1>1. PICK k \in DOMAIN ops : k = Len(ops) + 1 - position
  BY <1>0
<1>2. PICK o \in WorkspaceEditOperation : o = ops[k]
  BY <1>1
<1>3. PICK inv : inv = InverseGiven(o, before)
  OBVIOUS
<1>4. inv = Operation
  BY <1>0, <1>1, <1>2, <1>3, InverseAt DEF Operation
<1>5. /\ Touched(inv) = Touched(o)
      /\ inv.kind = InverseKind[o.kind]
      /\ o.kind # "RenameFile" => inv.file = o.file
      /\ o.kind = "RenameFile" => inv.file = o.target /\ inv.target = o.file
      /\ o.kind \in {"DeleteFile", "ReplaceFile"} => inv.replacement = o.original
      /\ o.kind = "EditText" /\ before[o.file] # Absent => inv.replacement = before[o.file]
  BY <1>3, InverseTouches
<1>6. \A x \in File \ Touched(o) : disk'[x] = disk[x] /\ text'[x] = text[x]
  BY <1>4, <1>5, Effects
<1>7. o.file \in File /\ o.target \in File /\ o.kind \in Kind
  BY <1>2 DEF WorkspaceEditOperation
<1>8. \A x \in File : First(ops, k, x) => Known(o, x, before)
  BY <1>1, <1>2 DEF Done
<1>9. \A x \in File : Handled(ops, x) /\ disk[x] = Absent => ReadText(x) = Absent /\ text[x] = Absent
  BY ReadingBacked DEF Backed
<1>10. o.kind \in Moves => \A x \in Touched(o) : Handled(ops, x)
  BY <1>2 DEF Handled
<1>11. ASSUME NEW x \in File, First(ops, k, x) PROVE Restored(x)'
  <2>1. x \in Touched(o) /\ Known(o, x, before)
    BY <1>2, <1>8, <1>11 DEF First
  <2>2. o.kind # "RenameFile" => x = o.file
    BY <2>1 DEF Touched
  <2>3. CASE o.kind = "CreateFile"
    <3>1. inv.kind = "DeleteFile" /\ inv.file = x
      BY <2>2, <2>3, <1>5 DEF InverseKind
    <3>2. disk'[x] = Absent /\ text'[x] = Absent
      BY <3>1, <1>4, Effects
    <3> QED
      BY <3>2, <2>1, <2>3 DEF Known, Restored, ReadText, IsOpen
  <2>4. CASE o.kind = "DeleteFile"
    <3>1. inv.kind = "CreateFile" /\ inv.file = x /\ inv.replacement = o.original
      BY <2>2, <2>4, <1>5 DEF InverseKind
    <3>2. disk[x] = Absent /\ disk'[x] = o.original /\ text'[x] = text[x]
      BY <3>1, <1>4, Effects
    <3>3. text[x] = Absent
      BY <3>2, <2>1, <2>4, <1>9, <1>10 DEF Moves
    <3> QED
      BY <3>2, <3>3, <2>1, <2>4 DEF Known, Restored, ReadText, IsOpen
  <2>5. CASE o.kind = "EditText"
    <3>1. before[x] # Absent
      BY <2>1, <2>5 DEF Known
    <3>2. inv.kind = "ReplaceFile" /\ inv.file = x /\ inv.replacement = before[x]
      BY <3>1, <2>2, <2>5, <1>5 DEF InverseKind
    <3>3. ReadText(x)' = before[x]
      BY <3>2, <1>4, Effects
    <3> QED
      BY <3>3 DEF Restored
  <2>6. CASE o.kind = "ReplaceFile"
    <3>1. inv.kind = "ReplaceFile" /\ inv.file = x /\ inv.replacement = o.original
      BY <2>2, <2>6, <1>5 DEF InverseKind
    <3>2. ReadText(x)' = o.original
      BY <3>1, <1>4, Effects
    <3> QED
      BY <3>2, <2>1, <2>6 DEF Known, Restored
  <2>7. CASE o.kind = "RenameFile"
    <3>1. inv.kind = "RenameFile" /\ inv.file = o.target /\ inv.target = o.file
      BY <2>7, <1>5 DEF InverseKind
    <3>2. /\ o.file # o.target
          /\ disk[o.target] # Absent /\ disk[o.file] = Absent
          /\ disk'[o.target] = Absent /\ text'[o.target] = Absent
          /\ disk'[o.file] = disk[o.target] /\ text'[o.file] = text[o.file]
      BY <3>1, <1>4, Effects
    <3>3. CASE x = o.target
      BY <3>2, <3>3, <2>1, <2>7 DEF Known, Restored, ReadText, IsOpen
    <3>4. CASE x = o.file
      <4>1. Carried(ops, k)
        BY <1>1, <1>2, <2>7 DEF Done
      <4>2. disk[o.target] = before[x]
        BY <4>1, <3>2, <3>4, <1>2, <1>11 DEF Carried
      <4>3. text[x] = Absent
        BY <3>2, <3>4, <2>1, <2>7, <1>9, <1>10 DEF Moves
      <4> QED
        BY <4>2, <4>3, <3>2, <3>4 DEF Restored, ReadText, IsOpen
    <3> QED
      BY <3>3, <3>4, <2>1, <2>7 DEF Touched
  <2> QED
    BY <2>3, <2>4, <2>5, <2>6, <2>7, <1>7 DEF Kind
<1>12. ASSUME NEW x \in File, Untouched(ops, k - 1, x) PROVE Restored(x)'
  <2>1. CASE x \in Touched(ops[k])
    BY <2>1, <1>11, <1>12 DEF First
  <2>2. CASE x \notin Touched(ops[k])
    <3>1. Untouched(ops, k, x)
      BY <2>2, <1>0, <1>1, <1>12 DEF Untouched
    <3>2. Restored(x)
      BY <3>1, <1>1 DEF Undoing
    <3>3. x \notin Touched(o)
      BY <2>2, <1>2 DEF Touched
    <3> QED
      BY <3>2, <3>3, <1>6 DEF Restored, ReadText, IsOpen
  <2> QED
    BY <2>1, <2>2
<1>13. ASSUME NEW i \in DOMAIN ops, ops[i].kind = "RenameFile" PROVE Carried(ops, i)'
  <2>1. Carried(ops, i)
    BY <1>13 DEF Done
  <2>2. CASE i = k
    <3>1. inv.kind = "RenameFile" /\ inv.file = ops[i].target
      BY <2>2, <1>2, <1>5, <1>13 DEF InverseKind
    <3> QED
      BY <3>1, <1>4, Effects DEF Carried
  <2>3. CASE i # k
    <3>1. ops[i].target \notin Touched(ops[k])
      BY <2>3, <1>13 DEF Fresh
    <3>2. ops[i].target \notin Touched(o)
      BY <3>1, <1>2 DEF Touched
    <3>3. ops[i] \in WorkspaceEditOperation
      OBVIOUS
    <3>4. ops[i].target \in File
      BY <3>3 DEF WorkspaceEditOperation
    <3> QED
      BY <2>1, <3>2, <3>4, <1>6 DEF Carried, OutOfStep, IsOpen, First, Untouched, Touched
  <2> QED
    BY <2>2, <2>3
<1>14. Undoing(ops)'
  <2>1. Len(ops) + 1 - position' = k - 1
    BY <1>0, <1>1
  <2> QED
    BY <2>1, <1>12 DEF Undoing, Untouched, Touched
<1>15. Done(ops, Len(ops))'
  <2> SUFFICES ASSUME NEW i \in 1 .. Len(ops)
               PROVE  /\ \A x \in File : First(ops, i, x) => Known(ops[i], x, before)
                      /\ ops[i].kind = "RenameFile" => Carried(ops, i)'
    BY DEF Done, First, Untouched, Touched, Known
  <2> QED
    BY <1>13 DEF Done
<1> QED
  BY <1>14, <1>15

\* Which call runs on which set, and that a set keeps the edit it was made of.
LEMMA CallsHold == Spec => []Calls
<1>1. Init => Calls
  BY DEF Init, Calls, ChangeSetId
<1>2. TypeOK /\ Calls /\ [Next]_vars => Calls'
  <2> SUFFICES ASSUME TypeOK, Calls, [Next]_vars PROVE Calls'
    OBVIOUS
  <2>0. /\ UNCHANGED <<sets, phase, current, operations, position, pending>>
        /\ undisturbed' \in {0, undisturbed}
        => Calls'
    BY DEF Calls, sets
  <2>1. CASE UNCHANGED vars
    BY <2>0, <2>1 DEF vars, call, history
  <2>2. ASSUME NEW f \in File, User(f) PROVE Calls'
    BY <2>0, <2>2
    DEF User, OpenDocument, CloseDocument, SaveDocument, EditDocument, WriteOutside,
        Disturb, call, history
  <2>3. ASSUME NEW ops \in Edits, Create(ops) PROVE Calls'
    <3>1. ASSUME NEW id \in ChangeSetId
          PROVE  edit'[id] \in Edits \cup {<<>>} /\ (status'[id] # "None" => id < nextId')
      <4>1. CASE id = nextId
        BY <2>3, <4>1 DEF Create, TypeOK, ChangeSetId
      <4>2. CASE id # nextId
        BY <2>3, <4>2 DEF Create, TypeOK, Calls, ChangeSetId
      <4> QED
        BY <4>1, <4>2
    <3> QED
      BY <3>1, <2>3 DEF Create, Calls, call
  <2>4. ASSUME NEW id \in ChangeSetId, Client(id) PROVE Calls'
    <3>1. ASSUME NEW decision, decision \in {"Approved", "Rejected"}, Decide(id, decision)
          PROVE  Calls'
      BY <3>1 DEF Decide, TypeOK, Calls, call
    <3>2. ASSUME NEW chosen, ApplyApproved(id, chosen) PROVE Calls'
      <4>1. /\ phase' = "apply" /\ current' = id /\ operations' = edit[id] /\ position' = 1
            /\ status[id] = "Approved" /\ undisturbed' \in {0, id}
            /\ UNCHANGED <<nextId, status, edit, inverse>>
        BY <3>2 DEF ApplyApproved, Begin, Disturb, sets
      <4>2. Len(edit[id]) \in Nat
        BY DEF TypeOK
      <4> QED
        BY <4>1, <4>2 DEF Calls
    <3>3. ASSUME NEW chosen, UndoApplied(id, chosen) PROVE Calls'
      <4>1. /\ phase' = "undo" /\ current' = id /\ operations' = inverse[id] /\ position' = 1
            /\ status[id] = "Applied" /\ inverse[id] # <<>>
            /\ UNCHANGED <<nextId, status, edit, inverse, undisturbed>>
        BY <3>3 DEF UndoApplied, Begin, sets, history
      <4>2. Len(inverse[id]) \in Nat
        BY DEF TypeOK
      <4> QED
        BY <4>1, <4>2 DEF Calls
    <3> QED
      BY <2>4, <3>1, <3>2, <3>3 DEF Client
  <2>5. CASE ApplyOperation /\ phase' # "idle"
    <3>1. Running /\ Performed
      BY <2>5, PerformedAdvances
    <3>2. /\ UNCHANGED <<nextId, status, edit, inverse, phase, current, operations>>
          /\ position' = position + 1 /\ position <= Len(operations) /\ phase # "idle"
          /\ undisturbed' \in {0, current}
      BY <3>1 DEF Running, Performed, Disturb, sets, history
    <3>3. position' <= Len(operations) + 1
      BY <3>2 DEF TypeOK
    <3> QED
      BY <3>2, <3>3 DEF Calls
  <2>6. CASE ApplyOperation /\ phase' = "idle"
    <3>1. UNCHANGED sets
      BY <2>6
      DEF ApplyOperation, CreateFile, DeleteFile, RenameFile, EditText, ReplaceDocument,
          ReplaceOnDisk, Performed, Running, Conflict, FailedWrite, Abandon
    <3> QED
      BY <3>1, <2>6 DEF Calls, sets
  <2>7. CASE FinishApply
    BY <2>7 DEF FinishApply, Leave, TypeOK, Calls
  <2>8. CASE FinishUndo
    BY <2>8 DEF FinishUndo, Leave, TypeOK, Calls
  <2> QED
    BY <2>1, <2>2, <2>3, <2>4, <2>5, <2>6, <2>7, <2>8 DEF Next
<1> QED
  BY <1>1, <1>2, TypeCorrect, PTL DEF Spec

\* A step after which everything reads as before, what is in step stays so and
\* no handled file comes or goes.
Quiet(ops) ==
  \A x \in File :
    /\ ReadText(x)' = ReadText(x)
    /\ ~OutOfStep(x) => disk'[x] = disk[x] /\ ~OutOfStep(x)'
    /\ Handled(ops, x) =>
         /\ disk'[x] = Absent <=> disk[x] = Absent
         /\ text'[x] # Absent => disk'[x] # Absent

LEMMA QuietSteps ==
  ASSUME TypeOK, NEW ops, Backed(ops),
         \/ \E f \in File : OpenDocument(f)
         \/ \E f \in File : CloseDocument(f) /\ ~OutOfStep(f)
         \/ \E f \in File : SaveDocument(f)
         \/ Conflict
         \/ UNCHANGED files
  PROVE  Quiet(ops)
<1> SUFFICES ASSUME NEW x \in File
             PROVE  /\ ReadText(x)' = ReadText(x)
                    /\ ~OutOfStep(x) => disk'[x] = disk[x] /\ ~OutOfStep(x)'
                    /\ Handled(ops, x) =>
                         /\ disk'[x] = Absent <=> disk[x] = Absent
                         /\ text'[x] # Absent => disk'[x] # Absent
  BY DEF Quiet
<1>1. Handled(ops, x) /\ text[x] # Absent => disk[x] # Absent
  BY DEF Backed, IsOpen
<1> USE DEF TypeOK, ReadText, OutOfStep, IsOpen
<1>2. ASSUME NEW f \in File, OpenDocument(f)
      PROVE  disk' = disk /\ text' = [text EXCEPT ![f] = disk[f]] /\ text[f] = Absent
                /\ disk[f] # Absent
  BY <1>2 DEF OpenDocument
<1>3. ASSUME NEW f \in File, CloseDocument(f), ~OutOfStep(f)
      PROVE  disk' = disk /\ text' = [text EXCEPT ![f] = Absent] /\ text[f] = disk[f]
  BY <1>3 DEF CloseDocument, Close
<1>4. ASSUME NEW f \in File, SaveDocument(f)
      PROVE  disk' = [disk EXCEPT ![f] = text[f]] /\ text' = text /\ text[f] # Absent
  BY <1>4 DEF SaveDocument
<1>5. ASSUME Conflict
      PROVE  \/ disk' = disk /\ text' = text
             \/ \E f \in File : /\ disk' = disk /\ text' = [text EXCEPT ![f] = disk[f]]
                                /\ text[f] = Absent /\ disk[f] # Absent
  <2>1. Operation.file \in File
    BY <1>5, OperationTyped DEF Conflict, WorkspaceEditOperation
  <2> QED
    BY <1>5, <2>1 DEF Conflict, files
<1>6. CASE disk' = disk /\ text' = text
  BY <1>1, <1>6
<1>7. ASSUME NEW f \in File, disk' = disk, text' = [text EXCEPT ![f] = disk[f]],
             text[f] = Absent, disk[f] # Absent
      PROVE  /\ ReadText(x)' = ReadText(x)
             /\ ~OutOfStep(x) => disk'[x] = disk[x] /\ ~OutOfStep(x)'
             /\ Handled(ops, x) => /\ disk'[x] = Absent <=> disk[x] = Absent
                                   /\ text'[x] # Absent => disk'[x] # Absent
  BY <1>1, <1>7
<1>8. ASSUME NEW f \in File, disk' = disk, text' = [text EXCEPT ![f] = Absent],
             text[f] = disk[f]
      PROVE  /\ ReadText(x)' = ReadText(x)
             /\ ~OutOfStep(x) => disk'[x] = disk[x] /\ ~OutOfStep(x)'
             /\ Handled(ops, x) => /\ disk'[x] = Absent <=> disk[x] = Absent
                                   /\ text'[x] # Absent => disk'[x] # Absent
  BY <1>1, <1>8
<1>9. ASSUME NEW f \in File, disk' = [disk EXCEPT ![f] = text[f]], text' = text,
             text[f] # Absent
      PROVE  /\ ReadText(x)' = ReadText(x)
             /\ ~OutOfStep(x) => disk'[x] = disk[x] /\ ~OutOfStep(x)'
             /\ Handled(ops, x) => /\ disk'[x] = Absent <=> disk[x] = Absent
                                   /\ text'[x] # Absent => disk'[x] # Absent
  <2>1. f = x => disk'[x] = text[x] /\ text'[x] = text[x]
    BY <1>9
  <2>2. f # x => disk'[x] = disk[x] /\ text'[x] = text[x]
    BY <1>9
  <2> QED
    BY <1>1, <1>9, <2>1, <2>2
<1> QED
  BY <1>2, <1>3, <1>4, <1>5, <1>6, <1>7, <1>8, <1>9 DEF files

\* Such a step keeps all that is known of the files.
LEMMA QuietKeeps ==
  ASSUME NEW ops \in Seq(WorkspaceEditOperation), Backed(ops), Quiet(ops), UNCHANGED before
  PROVE  /\ Backed(ops)'
         /\ \A x \in File : Restored(x) => Restored(x)'
         /\ \A x \in File : ~OutOfStep(x) => ~OutOfStep(x)'
         /\ \A n \in 0 .. Len(ops) : Done(ops, n) => Done(ops, n)'
<1>1. Backed(ops)'
  BY DEF Backed, Quiet, IsOpen, Handled, Touched
<1>2. \A x \in File : Restored(x) => Restored(x)'
  BY DEF Quiet, Restored
<1>3. \A x \in File : ~OutOfStep(x) => ~OutOfStep(x)'
  BY DEF Quiet
<1>4. ASSUME NEW n \in 0 .. Len(ops), Done(ops, n) PROVE Done(ops, n)'
  <2> SUFFICES ASSUME NEW i \in 1 .. n
               PROVE  /\ \A x \in File : First(ops, i, x) => Known(ops[i], x, before)
                      /\ ops[i].kind = "RenameFile" => Carried(ops, i)'
    BY DEF Done, First, Untouched, Touched, Known
  <2>1. \A x \in File : First(ops, i, x) => Known(ops[i], x, before)
    BY <1>4 DEF Done
  <2>2. ASSUME ops[i].kind = "RenameFile" PROVE Carried(ops, i)'
    <3>1. i \in DOMAIN ops /\ ops[i] \in WorkspaceEditOperation
      OBVIOUS
    <3>2. ops[i].target \in File
      BY <3>1 DEF WorkspaceEditOperation
    <3>3. Handled(ops, ops[i].target)
      BY <3>1, <2>2 DEF Handled, Moves, Touched
    <3>4. Carried(ops, i)
      BY <1>4, <2>2 DEF Done
    <3>5. /\ disk[ops[i].target] = Absent => disk'[ops[i].target] = Absent
          /\ ~OutOfStep(ops[i].target) => disk'[ops[i].target] = disk[ops[i].target]
                                            /\ ~OutOfStep(ops[i].target)'
      BY <3>2, <3>3 DEF Quiet
    <3>6. First(ops, i, ops[i].file)' = First(ops, i, ops[i].file)
      BY DEF First, Untouched, Touched
    <3>7. CASE disk[ops[i].target] = Absent
      BY <3>5, <3>7 DEF Carried
    <3>8. CASE ~First(ops, i, ops[i].file)
      BY <3>6, <3>8 DEF Carried
    <3>9. CASE disk[ops[i].target] = before[ops[i].file] /\ ~OutOfStep(ops[i].target)
      <4>1. disk'[ops[i].target] = before'[ops[i].file] /\ ~OutOfStep(ops[i].target)'
        BY <3>5, <3>9
      <4> QED
        BY <4>1 DEF Carried
    <3> QED
      BY <3>4, <3>7, <3>8, <3>9 DEF Carried
  <2> QED
    BY <2>1, <2>2
<1> QED
  BY <1>1, <1>2, <1>3, <1>4

\* Calls that change no file, beginnings and ends among them.
LEMMA QuietKept ==
  ASSUME TypeOK, NEW u \in ChangeSetId, NEW ops \in Seq(WorkspaceEditOperation), Kept(u, ops),
         Quiet(ops), UNCHANGED before,
         status'[u] # "None",
         status'[u] = "Applied" => status[u] = "Applied" /\ inverse'[u] = inverse[u],
         status'[u] = "Undone" => status[u] = "Undone",
         phase' # "apply", phase' = "undo" => position' = 1
  PROVE  Kept(u, ops)'
<1>1. Backed(ops) /\ Len(ops) \in Nat
  BY DEF Kept
<1>2. Backed(ops)' /\ \A x \in File : Restored(x) => Restored(x)'
  BY <1>1, QuietKeeps
<1>3. \A x \in File : Untouched(ops, Len(ops), x) => Restored(x)'
  BY <1>2 DEF Kept
<1>4. status'[u] = "Applied" => Done(ops, Len(ops))'
  <2>1. status'[u] = "Applied" => Done(ops, Len(ops)) /\ Len(ops) \in 0 .. Len(ops)
    BY <1>1 DEF Kept
  <2> QED
    BY <1>1, <2>1, QuietKeeps
<1>5. status'[u] = "Applied" => inverse'[u] = InverseOf(ops, before)
  BY DEF Kept
<1>6. InverseOf(ops, before)' = InverseOf(ops, before)
  BY DEF InverseOf, InverseGiven, InverseRecord, InverseKind
<1>7. status'[u] = "Undone" => \A x \in File : Restored(x)'
  BY <1>2 DEF Kept
<1>8. phase' = "undo" => Undoing(ops)'
  <2>1. phase' = "undo" => Len(ops) + 1 - position' = Len(ops)
    BY <1>1
  <2> QED
    BY <2>1, <1>3 DEF Undoing, Untouched, Touched
<1> QED
  BY <1>2, <1>3, <1>4, <1>5, <1>6, <1>7, <1>8 DEF Kept, Untouched, Touched

\* An application that nothing hides from begins with all it knows.
LEMMA BeginKept ==
  ASSUME TypeOK, NEW u \in ChangeSetId, NEW chosen, ApplyApproved(u, chosen), InStep(edit[u]),
         NEW ops \in Seq(WorkspaceEditOperation), ops = edit[u]
  PROVE  Kept(u, ops)'
<1>1. /\ disk' = disk /\ text' = text /\ status' = status
      /\ phase' = "apply" /\ operations' = ops /\ position' = 1
      /\ pending' = InverseEdit(ops) /\ before' = [x \in File |-> ReadText(x)]
      /\ status[u] = "Approved"
  BY DEF ApplyApproved, Begin, files, sets
<1>2. \A x \in File : Restored(x)'
  BY <1>1 DEF Restored, ReadText, IsOpen
<1>3. \A x \in File : Handled(ops, x) => ~OutOfStep(x)
  BY DEF InStep, Handled, Moves
<1>4. Backed(ops)'
  BY <1>1, <1>3 DEF Backed, Handled, Touched, IsOpen, OutOfStep
<1>5. pending' = InverseOf(ops, before')
  <2>1. ASSUME NEW i \in 1 .. Len(ops)
        PROVE  Inverse(ops[Len(ops) + 1 - i]) = InverseGiven(ops[Len(ops) + 1 - i], before')
    <3>1. Len(ops) + 1 - i \in 1 .. Len(ops)
      OBVIOUS
    <3>2. PICK o \in WorkspaceEditOperation : o = ops[Len(ops) + 1 - i]
      BY <3>1
    <3>3. o.file \in File
      BY <3>2 DEF WorkspaceEditOperation
    <3>4. before'[o.file] = ReadText(o.file)
      BY <1>1, <3>3
    <3>5. Inverse(o) = InverseGiven(o, before')
      BY <3>4 DEF Inverse, InverseGiven, TextBefore
    <3> QED
      BY <3>2, <3>5
  <2> QED
    BY <1>1, <2>1 DEF InverseOf, InverseEdit
<1>6. Done(ops, position - 1)'
  BY <1>1 DEF Done
<1>7. \A x \in File : Handled(ops, x) => ~OutOfStep(x)'
  BY <1>1, <1>3 DEF OutOfStep, IsOpen
<1>8. Applying(ops)'
  BY <1>1, <1>2, <1>5, <1>6, <1>7 DEF Applying, InverseOf, InverseGiven, InverseRecord,
     InverseKind, Handled, Untouched, Touched
<1> QED
  BY <1>1, <1>2, <1>4, <1>8 DEF Kept

\* The file that no operation touches is not touched by an undo either.
LEMMA UntouchedStep ==
  ASSUME TypeOK, ApplyOperation, phase' # "idle", NEW ops \in Seq(WorkspaceEditOperation),
         position <= Len(ops), operations = ops \/ operations = InverseOf(ops, before),
         NEW x \in File, Untouched(ops, Len(ops), x), Restored(x), UNCHANGED before
  PROVE  Restored(x)'
<1>0. position \in 1 .. Len(ops)
  BY DEF TypeOK
<1>1. x \notin Touched(Operation)
  <2>1. CASE operations = ops
    <3>1. x \notin Touched(ops[position])
      BY <1>0 DEF Untouched
    <3> QED
      BY <2>1, <3>1 DEF Operation, Touched
  <2>2. CASE operations = InverseOf(ops, before)
    <3>1. PICK o \in WorkspaceEditOperation : o = ops[Len(ops) + 1 - position]
      BY <1>0
    <3>2. x \notin Touched(ops[Len(ops) + 1 - position])
      BY <1>0 DEF Untouched
    <3>3. x \notin Touched(o)
      BY <3>1, <3>2 DEF Touched
    <3>4. Operation = InverseGiven(o, before)
      BY <1>0, <2>2, <3>1, InverseAt DEF Operation
    <3> QED
      BY <3>3, <3>4, InverseTouches
  <2> QED
    BY <2>1, <2>2
<1>2. disk'[x] = disk[x] /\ text'[x] = text[x]
  BY <1>1, OthersUntouched
<1> QED
  BY <1>2 DEF Restored, ReadText, IsOpen

\* An operation of the set that nobody has interfered with.
LEMMA StepKept ==
  ASSUME TypeOK, Calls, ApplyOperation, phase' # "idle", NEW u \in ChangeSetId,
         u = undisturbed', NEW ops \in Seq(WorkspaceEditOperation), ops = edit[u],
         Fresh(ops), u = undisturbed => Kept(u, ops)
  PROVE  Kept(u, ops)'
<1>1. Running /\ Performed /\ u # 0
  BY PerformedAdvances DEF ChangeSetId
<1>2. /\ u = undisturbed /\ u = current /\ Kept(u, ops)
      /\ UNCHANGED <<status, inverse, phase, current, operations, pending, before>>
      /\ position' = position + 1 /\ position <= Len(operations)
      /\ phase \in {"apply", "undo"}
  BY <1>1 DEF Performed, Disturb, Running, sets, history, TypeOK
<1>3. Backed(ops)'
  BY <1>2, BackedStep DEF Kept
<1>4. phase = "apply" => operations = ops /\ status[u] = "Approved" /\ Applying(ops)
  BY <1>2 DEF Calls, Kept
<1>5. phase = "undo" => /\ operations = InverseOf(ops, before) /\ status[u] = "Applied"
                        /\ inverse[u] = InverseOf(ops, before)
                        /\ Done(ops, Len(ops)) /\ Undoing(ops)
  BY <1>2 DEF Calls, Kept
<1>6. position <= Len(ops)
  <2>1. Len(InverseOf(ops, before)) = Len(ops)
    BY DEF InverseOf
  <2> QED
    BY <2>1, <1>2, <1>4, <1>5
<1>7. \A x \in File : Untouched(ops, Len(ops), x) => Restored(x)'
  BY <1>2, <1>4, <1>5, <1>6, UntouchedStep DEF Kept
<1>8. phase = "apply" => Applying(ops)'
  BY <1>2, <1>4, <1>6, ApplyStep DEF Kept
<1>9. phase = "undo" => Undoing(ops)' /\ Done(ops, Len(ops))'
  BY <1>2, <1>5, <1>6, UndoStep DEF Kept
<1>10. InverseOf(ops, before)' = InverseOf(ops, before)
  BY <1>2 DEF InverseOf, InverseGiven, InverseRecord, InverseKind
<1> QED
  BY <1>2, <1>3, <1>4, <1>5, <1>7, <1>8, <1>9, <1>10 DEF Kept, Untouched, Touched

\* What is kept of the set that nobody has interfered with, step by step.
LEMMA UndoInvHolds ==
  ASSUME NewNamesAreFresh PROVE Spec => []UndoInv
<1>1. Init => UndoInv
  BY DEF Init, UndoInv, ChangeSetId
<1>2. TypeOK /\ Calls /\ UndoInv /\ [Next]_vars => UndoInv'
  <2> SUFFICES ASSUME TypeOK, Calls, UndoInv, [Next]_vars,
                      NEW u \in ChangeSetId, NEW ops \in Seq(WorkspaceEditOperation),
                      u = undisturbed', ops = edit'[u]
               PROVE  Kept(u, ops)'
    BY DEF UndoInv
  <2>0. u # 0 /\ edit[u] \in Edits \cup {<<>>}
    BY DEF ChangeSetId, Calls
  <2>1. ASSUME u = undisturbed, ops = edit[u]
        PROVE  Kept(u, ops)
    BY <2>1 DEF UndoInv
  <2>2. ASSUME u = undisturbed, ops = edit[u], UNCHANGED <<files, before>>,
               status'[u] # "None",
               status'[u] = "Applied" => status[u] = "Applied" /\ inverse'[u] = inverse[u],
               status'[u] = "Undone" => status[u] = "Undone",
               phase' # "apply", phase' = "undo" => position' = 1
        PROVE  Kept(u, ops)'
    BY <2>1, <2>2, QuietSteps, QuietKept DEF Kept
  <2>3. CASE UNCHANGED vars
    <3>1. /\ UNCHANGED <<text, disk, before, status, inverse, edit, phase, position, current,
                         operations, pending, undisturbed>>
          /\ Kept(u, ops)
      BY <2>1, <2>3 DEF vars, files, sets, call, history
    <3>2. \A x \in File : /\ Restored(x)' <=> Restored(x)
                          /\ OutOfStep(x)' <=> OutOfStep(x)
      BY <3>1 DEF Restored, ReadText, OutOfStep, IsOpen
    <3>3. InverseOf(ops, before)' = InverseOf(ops, before)
      BY <3>1 DEF InverseOf, InverseGiven, InverseRecord, InverseKind
    <3>4. ASSUME NEW n, Done(ops, n) PROVE Done(ops, n)'
      <4>1. \A i : Carried(ops, i)' = Carried(ops, i)
        BY <3>1 DEF Carried, First, Untouched, Touched, OutOfStep, IsOpen
      <4>2. before' = before
        BY <3>1
      <4> QED
        BY <3>4, <4>1, <4>2 DEF Done, Known, First, Untouched, Touched
    <3>5. PICK n : n = position - 1
      OBVIOUS
    <3>6. Applying(ops) => Applying(ops)'
      <4>1. Done(ops, position - 1) => Done(ops, position - 1)'
        <5>1. Done(ops, n) => Done(ops, n)'
          BY <3>4
        <5>2. n = position' - 1
          BY <3>1, <3>5
        <5> QED
          BY <3>5, <5>1, <5>2
      <4> QED
        BY <3>1, <3>2, <3>3, <4>1 DEF Applying, Untouched, Touched, Handled
    <3>7. Undoing(ops) => Undoing(ops)'
      BY <3>1, <3>2 DEF Undoing, Untouched, Touched
    <3>8. Backed(ops) => Backed(ops)'
      BY <3>1 DEF Backed, IsOpen, Handled, Touched
    <3> QED
      BY <3>1, <3>2, <3>3, <3>4, <3>6, <3>7, <3>8 DEF Kept, Untouched, Touched
  <2>4. ASSUME NEW f \in File, User(f) PROVE Kept(u, ops)'
    <3>1. /\ UNCHANGED <<sets, phase, history>>
          /\ OpenDocument(f) \/ (CloseDocument(f) /\ ~OutOfStep(f)) \/ SaveDocument(f)
          /\ phase = "idle"
      BY <2>0, <2>4
      DEF User, OpenDocument, CloseDocument, SaveDocument, EditDocument, WriteOutside,
          Disturb, call
    <3>2. u = undisturbed /\ ops = edit[u] /\ UNCHANGED <<before, status, inverse, phase>>
      BY <3>1 DEF sets, history
    <3>3. Quiet(ops)
      BY <3>1, <3>2, <2>1, QuietSteps DEF Kept
    <3>4. status[u] # "None" /\ Kept(u, ops)
      BY <3>2, <2>1 DEF Kept
    <3> QED
      BY <3>1, <3>2, <3>3, <3>4, QuietKept
  <2>5. ASSUME NEW new \in Edits, Create(new) PROVE Kept(u, ops)'
    <3>1. u = undisturbed /\ UNCHANGED <<files, before>> /\ phase' = "idle"
      BY <2>5 DEF Create, history, call
    <3>2. status[u] # "None"
      BY <3>1 DEF UndoInv, Kept, TypeOK
    <3>3. u # nextId
      BY <3>2 DEF Calls, ChangeSetId
    <3>4. edit'[u] = edit[u] /\ status'[u] = status[u] /\ inverse'[u] = inverse[u]
      BY <3>3, <2>5 DEF Create, TypeOK
    <3> QED
      BY <3>1, <3>2, <3>4, <2>2
  <2>6. ASSUME NEW id \in ChangeSetId, NEW decision, decision \in {"Approved", "Rejected"},
               Decide(id, decision)
        PROVE  Kept(u, ops)'
    <3>1. /\ u = undisturbed /\ UNCHANGED <<files, before, edit, inverse>>
          /\ phase' = "idle" /\ status' = [status EXCEPT ![id] = decision]
      BY <2>6 DEF Decide, history, call
    <3>2. status[u] # "None"
      BY <3>1, <2>1 DEF Kept
    <3>3. status'[u] = status[u] \/ status'[u] = decision
      BY <3>1 DEF TypeOK
    <3> QED
      BY <3>1, <3>2, <3>3, <2>2, <2>6
  <2>7. ASSUME NEW id \in ChangeSetId, NEW chosen, ApplyApproved(id, chosen)
        PROVE  Kept(u, ops)'
    <3>1. InStep(edit[id]) /\ u = id /\ ops = edit[u]
      BY <2>0, <2>7 DEF ApplyApproved, Disturb, sets
    <3> QED
      BY <3>1, <2>7, BeginKept
  <2>8. ASSUME NEW id \in ChangeSetId, NEW chosen, UndoApplied(id, chosen)
        PROVE  Kept(u, ops)'
    <3>1. /\ u = undisturbed /\ UNCHANGED <<files, before, edit, inverse, status>>
          /\ phase' = "undo" /\ position' = 1
      BY <2>8 DEF UndoApplied, Begin, sets, history
    <3>2. status[u] # "None"
      BY <3>1, <2>1 DEF Kept
    <3> QED
      BY <3>1, <3>2, <2>2
  <2>9. CASE ApplyOperation /\ phase' # "idle"
    <3>1. Performed
      BY <2>9, PerformedAdvances
    <3>2. edit' = edit
      BY <3>1 DEF Performed, sets
    <3>3. Fresh(ops)
      BY <2>0, <3>2 DEF NewNamesAreFresh, Fresh
    <3>4. u = undisturbed => Kept(u, ops)
      BY <3>2, <2>1
    <3> QED
      BY <2>9, <3>2, <3>3, <3>4, StepKept
  <2>10. CASE ApplyOperation /\ phase' = "idle"
    <3>1. Conflict \/ FailedWrite
      BY <2>10
      DEF ApplyOperation, CreateFile, DeleteFile, RenameFile, EditText, ReplaceDocument,
          ReplaceOnDisk, Performed, Running
    <3>2. Conflict
      BY <2>0, <3>1 DEF FailedWrite, Disturb
    <3>3. u = undisturbed /\ UNCHANGED <<before, status, inverse, edit>>
      BY <3>2 DEF Conflict, Abandon, sets, history
    <3>4. Kept(u, ops) /\ Quiet(ops) /\ status[u] # "None"
      BY <3>2, <3>3, <2>1, QuietSteps DEF Kept
    <3> QED
      BY <3>3, <3>4, <2>10, QuietKept
  <2>11. CASE FinishApply
    <3>1. /\ phase = "apply" /\ current \in ChangeSetId /\ status[current] = "Approved"
          /\ position = Len(operations) + 1 /\ undisturbed \in {0, current}
      <4>1. Len(operations) \in Nat /\ position \in Nat
        BY DEF TypeOK
      <4> QED
        BY <4>1, <2>11 DEF FinishApply, Calls
    <3>2. /\ u = undisturbed /\ u = current /\ ops = edit[u]
          /\ UNCHANGED <<files, before>> /\ phase' = "idle"
          /\ status'[u] = "Applied" /\ inverse'[u] = pending
      BY <2>0, <2>11, <3>1 DEF FinishApply, Leave, history, TypeOK
    <3>3. Kept(u, ops) /\ Applying(ops)
      BY <3>1, <3>2, <2>1 DEF Kept
    <3>4. position - 1 = Len(ops) /\ Len(ops) \in 0 .. Len(ops)
      BY <3>1, <3>3 DEF Applying
    <3>5. Done(ops, Len(ops)) /\ pending = InverseOf(ops, before)
      BY <3>3, <3>4 DEF Applying
    <3>6. Quiet(ops) /\ Backed(ops)
      BY <3>2, <3>3, QuietSteps DEF Kept
    <3>7. before' = before
      BY <3>2
    <3>8. Backed(ops)' /\ Done(ops, Len(ops))'
      BY <3>4, <3>5, <3>6, <3>7, QuietKeeps
    <3>9. \A x \in File : Untouched(ops, Len(ops), x) => Restored(x)'
      BY <3>3, <3>6, <3>7, QuietKeeps DEF Kept
    <3>10. InverseOf(ops, before)' = InverseOf(ops, before)
      BY <3>7 DEF InverseOf, InverseGiven, InverseRecord, InverseKind
    <3> QED
      BY <3>2, <3>5, <3>8, <3>9, <3>10 DEF Kept, Untouched, Touched
  <2>12. CASE FinishUndo
    <3>1. /\ phase = "undo" /\ current \in ChangeSetId
          /\ position = Len(operations) + 1 /\ operations # <<>>
          /\ u = undisturbed /\ ops = edit[u] /\ Len(operations) \in Nat
          /\ UNCHANGED <<files, before, inverse>> /\ phase' = "idle"
          /\ status' = [status EXCEPT ![current] = "Undone"]
      BY <2>12 DEF FinishUndo, Leave, Calls, TypeOK, history
    <3>2. u = current
      <4>1. Len(operations) # 0
        BY <3>1 DEF TypeOK
      <4> QED
        BY <3>1, <4>1, <2>0 DEF Calls
    <3>3. /\ Kept(u, ops) /\ Undoing(ops) /\ status[u] = "Applied"
          /\ operations = InverseOf(ops, before)
      BY <3>1, <3>2, <2>1 DEF Kept, Calls
    <3>4. Len(ops) + 1 - position = 0
      BY <3>1, <3>3 DEF InverseOf
    <3>5. \A x \in File : Restored(x)
      BY <3>3, <3>4 DEF Undoing, Untouched
    <3>6. Quiet(ops) /\ Backed(ops) /\ before' = before
      BY <3>1, <3>3, QuietSteps DEF Kept
    <3>7. Backed(ops)' /\ \A x \in File : Restored(x)'
      BY <3>5, <3>6, QuietKeeps
    <3>8. status'[u] = "Undone"
      BY <3>1, <3>2 DEF TypeOK
    <3> QED
      BY <3>1, <3>7, <3>8 DEF Kept
  <2> QED
    BY <2>3, <2>4, <2>5, <2>6, <2>7, <2>8, <2>9, <2>10, <2>11, <2>12 DEF Next, Client
<1> QED
  BY <1>1, <1>2, TypeCorrect, CallsHold, PTL DEF Spec

\* What an undo may be relied on for, whatever the edits, as long as the new
\* name of a renamed file occurs in no other operation of its edit: a change
\* set that is applied, undone and disturbed by nobody leaves every file and
\* document as it was, even when an attempt to undo it failed half way first.
THEOREM UndoneIsRestored ==
  ASSUME NewNamesAreFresh PROVE Spec => []UndoRestores
<1>1. TypeOK /\ UndoInv => UndoRestores
  BY DEF TypeOK, UndoInv, Kept, UndoRestores, Restored
<1> QED
  BY <1>1, TypeCorrect, UndoInvHolds, PTL
=============================================================================
