---------------------------- MODULE MCChangeSets ----------------------------
(***************************************************************************)
(* Two files, the texts a and b besides the empty one, and edits of one or *)
(* two operations of every kind, on the same file and on different ones.   *)
(***************************************************************************)
EXTENDS ChangeSets, TLC

CONSTANTS f, g, a, b

MCEdited == (a :> b) @@ (b :> a) @@ (EmptyText :> a)

Op(kind, file, target, original, replacement, expected) ==
  [kind |-> kind, file |-> file, target |-> target, original |-> original,
   replacement |-> replacement, version |-> expected]

Replace(file, expected) == Op("ReplaceFile", file, file, a, b, expected)
EditAt(file, expected) == Op("EditText", file, file, EmptyText, EmptyText, expected)
Edit(file) == EditAt(file, 0)
New(file) == Op("CreateFile", file, file, EmptyText, a, 0)
Delete(file) == Op("DeleteFile", file, file, a, EmptyText, 0)
Rename(file, target) == Op("RenameFile", file, target, EmptyText, EmptyText, 0)

\* Every kind alone, and pairs of operations.
MCEdits ==
  {<<Replace(f, 0)>>, <<Replace(f, 2)>>, <<EditAt(f, 2)>>, <<Rename(f, g)>>,
   <<Replace(f, 0), Edit(g)>>, <<Edit(f), New(g)>>, <<Delete(f), New(g)>>,
   <<Edit(f), Edit(f)>>, <<Edit(f), Replace(f, 0)>>, <<Replace(f, 0), Rename(f, g)>>,
   <<Rename(f, g), New(f)>>}

\* Edits that work on a file under its new name (MCChangeSetsRenamed.cfg):
\* NewNamesAreFresh fails, and so does UndoRestores.
MCRenamedEdits == {<<Rename(f, g), Edit(g)>>, <<Rename(f, g), Replace(g, 0)>>}

\* A version is expected of a document that may be closed
\* (MCChangeSetsVersions.cfg).
MCVersionedEdits == {<<EditAt(f, 2)>>}

\* All edits but the renamed ones are such as ChangeSetsProofs has a theorem about.
ASSUME EditsAssumption == Edits = MCRenamedEdits \/ NewNamesAreFresh
=============================================================================
