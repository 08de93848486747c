------------------------------- MODULE Notes -------------------------------
(***************************************************************************)
(* The shared note of a channel and the editors of NotesModal.  The text is *)
(* the set of the edits it contains, one per user.  An editor takes the     *)
(* first content it gets, from the query cache or the server, and never     *)
(* another one; a save writes the whole text.  Nobody listens to           *)
(* NoteUpdate.                                                             *)
(***************************************************************************)
EXTENDS Requests

VARIABLES note,    \* the content in the ChannelNote row
          copy,    \* the query cache of each user's page
          editor,  \* the modal of each user; base is what it was given
          taken    \* history: edits a save took away from the note it was based on

notesVars == <<note, copy, editor, taken>>

Text == SUBSET User
EditorRecord == [open : BOOLEAN, loaded : BOOLEAN, busy : BOOLEAN,
                 base : Text, content : Text]
Closed == [open |-> FALSE, loaded |-> FALSE, busy |-> FALSE, base |-> {},
           content |-> {}]

NotesTypeOK ==
  /\ note \in Text /\ copy \in [User -> Text \cup {None}] /\ editor \in [User -> EditorRecord]
  /\ taken \in Text

NotesInit ==
  /\ note = {} /\ copy = [u \in User |-> None]
  /\ editor = [u \in User |-> Closed] /\ taken = {}

Load(u, text) ==
  editor' = [editor EXCEPT ![u].open = TRUE, ![u].loaded = TRUE, ![u].base = text,
                           ![u].content = text]

(* A copy is loaded, however old it is.  One younger than 30 s is not        *)
(* fetched again; what is fetched over an older one is not loaded.           *)
OpenEditor(u) ==
  /\ ~editor[u].open
  /\ IF copy[u] = None THEN editor' = [editor EXCEPT ![u].open = TRUE]
                               ELSE Load(u, copy[u])
  /\ UNCHANGED <<note, copy, taken, requestVars>>

FetchNote(u) ==
  /\ editor[u].open /\ u \in members
  /\ copy' = [copy EXCEPT ![u] = note]
  /\ IF editor[u].loaded THEN UNCHANGED editor ELSE Load(u, note)
  /\ UNCHANGED <<note, taken, requestVars>>

Write(u) ==
  /\ editor[u].open /\ u \notin editor[u].content
  /\ editor' = [editor EXCEPT ![u].content = @ \cup {u}]
  /\ UNCHANGED <<note, copy, taken, requestVars>>

CloseEditor(u) ==
  /\ editor[u].open /\ editor' = [editor EXCEPT ![u] = Closed]
  /\ UNCHANGED <<note, copy, taken, requestVars>>

(* The Save button asks only that no save is under way: it works before     *)
(* anything is loaded.                                                     *)
BeginSave(h, u) ==
  /\ editor[u].open /\ ~editor[u].busy /\ u \in members
  /\ Begin(h, "saveNote", u, editor[u].base, editor[u].content)
  /\ editor' = [editor EXCEPT ![u].busy = TRUE] /\ UNCHANGED <<note, copy, taken>>

SaveNote(h) ==
  /\ At(h, "saveNote") /\ note' = proc[h].seen
  /\ taken' = IF proc[h].ref = note THEN taken \cup (note \ proc[h].seen) ELSE taken
  /\ Goto(h, "readNote") /\ UNCHANGED <<copy, editor>>

(* The answer is read after the write and becomes the page's copy.          *)
ReadNote(h) ==
  /\ At(h, "readNote") /\ GotoWith(h, "noteAnswer", note) /\ UNCHANGED notesVars

TakeNote(h) ==
  LET u == proc[h].user IN
  /\ At(h, "noteAnswer") /\ Finish(h)
  /\ copy' = [copy EXCEPT ![u] = proc[h].seen]
  /\ editor' = [editor EXCEPT ![u] = Closed]
  /\ UNCHANGED <<note, taken>>

SaveFails(h) ==
  /\ Die(h) /\ editor' = [editor EXCEPT ![proc[h].user].busy = FALSE]
  /\ UNCHANGED <<note, copy, taken>>

EditorStep(u) ==
  OpenEditor(u) \/ FetchNote(u) \/ Write(u) \/ CloseEditor(u)

NotesNext ==
  \/ \E u \in User :
       \/ EditorStep(u) \/ (RemoveFromChannel(u) /\ UNCHANGED notesVars)
       \/ \E h \in Handler : BeginSave(h, u)
  \/ \E h \in Handler : SaveNote(h) \/ ReadNote(h) \/ TakeNote(h) \/ SaveFails(h)

NotesSpec == RequestsInit /\ NotesInit /\ [][NotesNext]_<<requestVars, notesVars>>

(* "Shared collaborative note for a channel — everyone can edit and save"  *)
(* (NotesModal.tsx:6): a save takes nobody's edit away as long as the note   *)
(* is still the one its editor was given, first by the cache or first by     *)
(* the server.  A save over a later note, over an outdated copy or before    *)
(* anything was loaded does take edits away.                                *)
EditsKept == taken = {}
=============================================================================
