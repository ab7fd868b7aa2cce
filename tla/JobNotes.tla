------------------------------ MODULE JobNotes ------------------------------
(***************************************************************************)
(* The notes of a job.  They live in the processing_job_note table; older  *)
(* ones lie in a notes.json beside the job's output in S3, and the first   *)
(* request that lists a job without notes imports them; ingesting a        *)
(* domain again copies the notes of its job to the new one.  Requests run  *)
(* at the same time, in threads of several pods; a statement sees what was *)
(* committed before it began, and waits for the rows that an uncommitted   *)
(* DELETE has locked.                                                      *)
(***************************************************************************)
EXTENDS Integers, SequencesExt

CONSTANTS
  Jobs,          \* the jobs there are or may be
  NewJobs,       \* those that are still to be ingested
  LegacyJobs,    \* those with a notes.json
  LegacyTexts,   \* the texts in a notes.json
  UserTexts,     \* the texts users write
  Clients,       \* the requests that may be under way at once
  None,          \* no job, no note
  MaxNotes       \* bound on the notes ever inserted

Texts == LegacyTexts \cup UserTexts
Note == [job: Jobs, text: Texts]

ASSUME NotesAssumption ==
  /\ NewJobs \subseteq Jobs /\ LegacyJobs \subseteq Jobs \ NewJobs
  /\ None \notin Jobs \cup Note
  /\ LegacyTexts \cap UserTexts = {}
  /\ IsFiniteSet(LegacyTexts) /\ IsFiniteSet(UserTexts)
  /\ MaxNotes \in Nat

VARIABLES
  notes,         \* the table: id i is notes[i], None once deleted; ids are never reused
  created,       \* the jobs there are
  client         \* per client, how far its request is

vars == <<notes, created, client>>

-----------------------------------------------------------------------------
Ids == 1..MaxNotes

\* ids: the notes that a replacement is to delete ("wait") or has deleted and not
\* yet committed ("replace"), or the one an edit or a deletion has read; for an
\* ingestion, as history, those its source had to begin with.
\* read: the text of each note that an ingestion has read of its source, to be copied.
Client == [pc: {"idle", "import", "wait", "replace", "reply", "patch", "delete",
                "copy import", "copy", "ingest"},
           job: Jobs \cup {None}, ids: SUBSET Ids,
           read: UNION {[S -> Texts] : S \in SUBSET Ids}]
NewClient == [pc |-> "idle", job |-> None, ids |-> {}, read |-> [i \in {} |-> None]]

NotesTypeOK ==
  /\ notes \in Seq(Note \cup {None}) /\ Len(notes) <= MaxNotes
  /\ created \in SUBSET Jobs
  /\ client \in [Clients -> Client]

NotesInit ==
  /\ notes = <<>>
  /\ created = Jobs \ NewJobs
  /\ client = [c \in Clients |-> NewClient]

NotesOf(j) == {i \in DOMAIN notes : notes[i] # None /\ notes[i].job = j}
InsertUnattached(table, j, texts) ==                                 \* bug: no job_id
  table \o [k \in DOMAIN texts |-> [job |-> None, text |-> texts[k]]]
Insert(table, j, texts) ==
  table \o [k \in DOMAIN texts |-> [job |-> j, text |-> texts[k]]]
Without(ids) == [i \in DOMAIN notes |-> IF i \in ids THEN None ELSE notes[i]]
Room(texts) == Len(notes) + Len(texts) <= MaxNotes

\* The rows that uncommitted replacements have locked.
Locked == UNION {client[c].ids : c \in {d \in Clients : client[d].pc = "replace"}}

Goes(c, pc, j, ids) == client' = [client EXCEPT ![c] = [NewClient EXCEPT !.pc = pc, !.job = j, !.ids = ids]]
Done(c) == client' = [client EXCEPT ![c] = NewClient]

-----------------------------------------------------------------------------
\* GET .../notes, and the reply to a replacement, list the notes: first count
\* them; a job that has some is answered.
CountNotes(c, j) ==
  /\ client[c].pc = "idle" \/ (client[c].pc = "reply" /\ client[c].job = j)
  /\ IF NotesOf(j) = {} THEN Goes(c, "import", j, {}) ELSE Done(c)
  /\ UNCHANGED notes

\* Then import what notes.json has: nothing, if there is none or S3 fails.
ImportLegacyNotes(c) ==
  /\ client[c].pc \in {"import", "copy import"}
  /\ \/ /\ client[c].job \in LegacyJobs /\ Room(SetToSeq(LegacyTexts))
        /\ notes' = Insert(notes, client[c].job, SetToSeq(LegacyTexts))
     \/ UNCHANGED notes
  /\ IF client[c].pc = "copy import" THEN client' = [client EXCEPT ![c].pc = "copy"] ELSE Done(c)

\* POST .../notes with one note.
SaveNote(c, j, t) ==
  /\ client[c].pc = "idle"
  /\ Room(<<t>>)
  /\ notes' = Insert(notes, j, <<t>>)
  /\ UNCHANGED client

\* POST .../notes with a list begins to delete the notes there are ...
StartReplacing(c, j) ==
  /\ client[c].pc = "idle"
  /\ Goes(c, "wait", j, NotesOf(j))
  /\ UNCHANGED notes

\* ... has deleted those that are still there ...
DeleteNotes(c) ==
  /\ client[c].pc = "wait"
  /\ client[c].ids \cap Locked = {}
  /\ Goes(c, "replace", client[c].job, client[c].ids \cap NotesOf(client[c].job))
  /\ UNCHANGED notes

ReplaceAllNotes(c, texts) ==                                         \* bug: deletes at the end
  /\ client[c].pc = "replace"
  /\ Room(SetToSeq(texts))
  /\ notes' = Insert(Without(NotesOf(client[c].job)), client[c].job, SetToSeq(texts))
  /\ Goes(c, "reply", client[c].job, {})

\* ... and commits that with the notes of the list.
ReplaceNotes(c, texts) ==
  /\ client[c].pc = "replace"
  /\ Room(SetToSeq(texts))
  /\ notes' = Insert(Without(client[c].ids), client[c].job, SetToSeq(texts))
  /\ Goes(c, "reply", client[c].job, {})

\* PATCH and DELETE .../notes/<id> read the note ...
ReadNote(c, i, pc) ==
  /\ client[c].pc = "idle"
  /\ i \in DOMAIN notes /\ notes[i] # None
  /\ Goes(c, pc, notes[i].job, {i})
  /\ UNCHANGED notes

UpdateNoteMerging(c, t) ==                                           \* bug: writes the row anew
  /\ client[c].pc = "patch"
  /\ client[c].ids \cap Locked = {}
  /\ notes' = [i \in DOMAIN notes |->
       IF i \in client[c].ids THEN [job |-> client[c].job, text |-> t] ELSE notes[i]]
  /\ Done(c)

\* ... and write it, if it is still there.
UpdateNote(c, t) ==
  /\ client[c].pc = "patch"
  /\ client[c].ids \cap Locked = {}
  /\ notes' = [i \in DOMAIN notes |->
       IF i \in client[c].ids /\ notes[i] # None THEN [notes[i] EXCEPT !.text = t] ELSE notes[i]]
  /\ Done(c)

DeleteNote(c) ==
  /\ client[c].pc = "delete"
  /\ client[c].ids \cap Locked = {}
  /\ notes' = Without(client[c].ids)
  /\ Done(c)

-----------------------------------------------------------------------------
(* POST /ontology/ingest for a domain that has a job already, the source. *)

\* The request counts the source's notes ...
CountToCopy(c, source) ==
  /\ client[c].pc = "idle"
  /\ Goes(c, IF NotesOf(source) = {} THEN "copy import" ELSE "copy", source, NotesOf(source))
  /\ UNCHANGED notes

\* ... imports what notes.json has if there are none, and reads them ...
TextsOf(j) == [i \in NotesOf(j) |-> notes[i].text]

ReadToCopy(c) ==
  /\ client[c].pc = "copy"
  /\ client' = [client EXCEPT ![c].pc = "ingest", ![c].read = TextsOf(client[c].job)]
  /\ UNCHANGED notes

Copies(read) == LET ids == SetToSeq(DOMAIN read) IN [k \in DOMAIN ids |-> read[ids[k]]]
CopyLastNote(c, j) ==                                                \* bug: the loop's last text
  Insert(notes, j, [k \in DOMAIN Copies(client[c].read) |-> Last(Copies(client[c].read))])
CopyNotes(c, j) == Insert(notes, j, Copies(client[c].read))

\* ... and commits the new job with the copies, or neither if the database fails.
Ingest(c) ==
  /\ client[c].pc = "ingest"
  /\ \/ \E j \in NewJobs \ created :
          /\ Room(Copies(client[c].read))
          /\ created' = created \cup {j}
          /\ notes' = CopyNotes(c, j)
     \/ UNCHANGED <<notes, created>>
  /\ Done(c)

NotesNext ==
  \E c \in Clients :
    \/ /\ \/ \E j \in created : CountNotes(c, j) \/ StartReplacing(c, j) \/ CountToCopy(c, j)
          \/ \E j \in created, t \in UserTexts : SaveNote(c, j, t)
          \/ \E i \in DOMAIN notes, pc \in {"patch", "delete"} : ReadNote(c, i, pc)
          \/ \E t \in UserTexts : UpdateNote(c, t)
          \/ \E texts \in SUBSET UserTexts : ReplaceNotes(c, texts)
          \/ DeleteNotes(c) \/ ImportLegacyNotes(c) \/ DeleteNote(c) \/ ReadToCopy(c)
       /\ UNCHANGED created
    \/ Ingest(c)

NotesSpec == NotesInit /\ [][NotesNext]_vars

-----------------------------------------------------------------------------
(* Properties. *)

\* An edit that races with a deletion or a replacement does not bring the note
\* back: an id that has been deleted stays deleted.
DeletedForGood ==
  [][\A i \in DOMAIN notes : notes[i] = None => notes'[i] = None]_vars

\* Nobody's note is lost unseen: a note goes away only with a request that had
\* read it, so one that is posted while a replacement is under way stays.
UnseenNoteKept ==
  [][\A i \in DOMAIN notes : notes[i] # None /\ notes'[i] = None =>
       \E c \in Clients : i \in client[c].ids]_vars

\* Ingesting a domain again does not lose its notes.  The request reads the text of
\* each note that its source had when it was asked for, but those deleted since; and
\* the new job begins with a copy of its own for each of these that still is, with the
\* text that it had when it was read.
NotesCopied ==
  [][\A c \in Clients :
       LET kept == {i \in client[c].ids : notes[i] # None} IN
         /\ client[c].pc = "copy" /\ client'[c].pc = "ingest" =>
              \A i \in kept : i \in DOMAIN client'[c].read /\ client'[c].read[i] = notes[i].text
         /\ \A j \in created' \ created : client[c].pc = "ingest" /\ client'[c].pc = "idle" =>
              \E copy \in Injection(kept, NotesOf(j)') :
                \A i \in kept : notes'[copy[i]].text = client[c].read[i]]_vars
=============================================================================
