--------------------------- MODULE JobNotesProofs ---------------------------
(* Theorems about JobNotes, for any jobs, texts, requests and bounds. *)
EXTENDS JobNotes, SequenceTheorems, FiniteSetTheorems, TLAPS

Table == Seq(Note \cup {None})

\* A request that is under way is about a job.
HasJob == \A c \in Clients : client[c].pc # "idle" => client[c].job \in Jobs

\* The notes that an ingestion has counted are its source's, as far as they remain ...
OfSource ==
  \A c \in Clients : client[c].pc \in {"copy import", "copy", "ingest"} =>
    /\ client[c].ids \subseteq DOMAIN notes
    /\ \A i \in client[c].ids : notes[i] # None => notes[i].job = client[c].job

\* ... and it has read the text of each of them.
Remaining(c) == {i \in client[c].ids : notes[i] # None}
AllRead ==
  \A c \in Clients : client[c].pc = "ingest" => Remaining(c) \subseteq DOMAIN client[c].read

NotesInv == NotesTypeOK /\ HasJob /\ OfSource /\ AllRead

-----------------------------------------------------------------------------
(* Sequences and tables. *)

\* The sequence of a finite set has each of its elements.
LEMMA SetToSeqType ==
  ASSUME NEW S, IsFiniteSet(S)
  PROVE  /\ SetToSeq(S) \in Seq(S)
         /\ \A x \in S : \E k \in DOMAIN SetToSeq(S) : SetToSeq(S)[k] = x
<1>1. Cardinality(S) \in Nat /\ ExistsBijection(1..Cardinality(S), S)
  BY FS_CardinalityType
<1>2. PICK f \in [1..Cardinality(S) -> S] :
        \A a, b \in 1..Cardinality(S) : f[a] = f[b] => a = b
  BY <1>1 DEF ExistsBijection, Bijection, Injection, IsInjective
<1>3. IsInjective(f)
  BY <1>2 DEF IsInjective
<1>4. SetToSeq(S) \in [1..Cardinality(S) -> S] /\ IsInjective(SetToSeq(S))
  BY <1>3 DEF SetToSeq
<1>5. SetToSeq(S) \in Injection(1..Cardinality(S), S)
  BY <1>4 DEF Injection
<1>6. IsFiniteSet(1..Cardinality(S)) /\ Cardinality(1..Cardinality(S)) = Cardinality(S)
  <2>1. IsFiniteSet(1..Cardinality(S))
        /\ Cardinality(1..Cardinality(S)) = IF 1 > Cardinality(S) THEN 0 ELSE Cardinality(S) - 1 + 1
    BY <1>1, FS_Interval
  <2> QED
    BY <1>1, <2>1
<1>7. SetToSeq(S) \in Surjection(1..Cardinality(S), S)
  BY <1>5, <1>6, FS_Injection
<1> QED
  BY <1>1, <1>4, <1>7 DEF Surjection

\* Inserting appends a note of the job for each text.
LEMMA InsertAppends ==
  ASSUME NEW table \in Table, NEW j \in Jobs, NEW texts \in Seq(Texts)
  PROVE  /\ Insert(table, j, texts) \in Table
         /\ Len(Insert(table, j, texts)) = Len(table) + Len(texts)
         /\ \A i \in 1..Len(table) : Insert(table, j, texts)[i] = table[i]
         /\ \A k \in 1..Len(texts) :
              Insert(table, j, texts)[Len(table) + k] = [job |-> j, text |-> texts[k]]
<1> DEFINE new == [k \in DOMAIN texts |-> [job |-> j, text |-> texts[k]]]
<1>1. DOMAIN texts = 1..Len(texts) /\ Len(texts) \in Nat
  BY LenProperties
<1>2. \A k \in 1..Len(texts) : [job |-> j, text |-> texts[k]] \in Note
  BY <1>1, ElementOfSeq DEF Note
<1>3. new \in [1..Len(texts) -> Note \cup {None}]
  BY <1>1, <1>2
<1>4. new \in Table /\ Len(new) = Len(texts)
  BY <1>1, <1>3 DEF Table
<1>5. Insert(table, j, texts) = table \o new
  BY DEF Insert
<1>6. /\ table \o new \in Table
      /\ Len(table \o new) = Len(table) + Len(new)
      /\ \A i \in 1..Len(table) + Len(new) :
           (table \o new)[i] = IF i <= Len(table) THEN table[i] ELSE new[i - Len(table)]
  BY <1>4, ConcatProperties DEF Table
<1>7. Len(table) \in Nat
  BY LenProperties DEF Table
<1>8. \A i \in 1..Len(table) : (table \o new)[i] = table[i]
  BY <1>1, <1>4, <1>6, <1>7
<1>9. ASSUME NEW k \in 1..Len(texts)
      PROVE  (table \o new)[Len(table) + k] = [job |-> j, text |-> texts[k]]
  <2>1. (table \o new)[Len(table) + k] = new[k]
    BY <1>1, <1>4, <1>6, <1>7
  <2> QED
    BY <2>1, <1>1
<1> HIDE DEF new
<1> QED
  BY <1>4, <1>5, <1>6, <1>8, <1>9

\* Deleting keeps the table's length and the notes that are not deleted.
LEMMA WithoutKeeps ==
  ASSUME NotesTypeOK, NEW ids
  PROVE  /\ Without(ids) \in Table
         /\ Len(Without(ids)) = Len(notes)
         /\ \A i \in DOMAIN notes : Without(ids)[i] = IF i \in ids THEN None ELSE notes[i]
<1>1. notes \in Seq(Note \cup {None})
  BY DEF NotesTypeOK
<1>2. DOMAIN notes = 1..Len(notes) /\ Len(notes) \in Nat
  BY <1>1, LenProperties
<1>3. Without(ids) \in [1..Len(notes) -> Note \cup {None}]
  BY <1>1, <1>2, ElementOfSeq DEF Without
<1> QED
  BY <1>2, <1>3 DEF Table, Without

-----------------------------------------------------------------------------
(* What a step does to the table. *)

\* It keeps the table's shape and bound; a note that remains is of the same job, a
\* deleted one does not return, and one goes away only with a request that read it.
TableKept(table) ==
  /\ table \in Table
  /\ Len(notes) <= Len(table) /\ Len(table) <= MaxNotes
  /\ \A i \in DOMAIN notes : table[i] # None => notes[i] # None /\ table[i].job = notes[i].job
  /\ \A i \in DOMAIN notes :
       notes[i] # None /\ table[i] = None => \E c \in Clients : i \in client[c].ids

\* Doing nothing keeps the table, and so does deleting what a request has read.
LEMMA WithoutTable ==
  ASSUME NotesTypeOK, NEW c \in Clients, NEW ids \in SUBSET client[c].ids
  PROVE  TableKept(Without(ids)) /\ TableKept(notes)
<1>1. notes \in Table /\ Len(notes) \in Nat /\ Len(notes) <= MaxNotes
  BY LenProperties DEF NotesTypeOK, Table
<1> QED
  BY <1>1, WithoutKeeps, NotesAssumption DEF TableKept

\* Appending notes of a job to a table that keeps this one keeps it too.
LEMMA InsertTable ==
  ASSUME NotesTypeOK, NEW table, TableKept(table), Len(table) = Len(notes),
         NEW j \in Jobs, NEW texts \in Seq(Texts), Room(texts)
  PROVE  TableKept(Insert(table, j, texts))
<1>1. DOMAIN notes = 1..Len(notes) /\ Len(notes) \in Nat
  BY LenProperties DEF NotesTypeOK
<1>2. Len(texts) \in Nat /\ Len(table) \in Nat
  BY LenProperties DEF TableKept, Table
<1>3. Len(Insert(table, j, texts)) = Len(notes) + Len(texts)
  BY InsertAppends DEF TableKept
<1>4. \A i \in DOMAIN notes : Insert(table, j, texts)[i] = table[i]
  BY <1>1, InsertAppends DEF TableKept
<1>5. Insert(table, j, texts) \in Table
  BY InsertAppends DEF TableKept
<1> QED
  BY <1>1, <1>2, <1>3, <1>4, <1>5 DEF TableKept, Room

\* The texts of the lists and of notes.json are sequences.
LEMMA ListsOfTexts ==
  /\ SetToSeq(LegacyTexts) \in Seq(Texts)
  /\ \A texts \in SUBSET UserTexts : SetToSeq(texts) \in Seq(Texts)
  /\ \A t \in UserTexts : <<t>> \in Seq(Texts)
<1>1. SetToSeq(LegacyTexts) \in Seq(Texts)
  <2>1. SetToSeq(LegacyTexts) \in Seq(LegacyTexts)
    BY SetToSeqType, NotesAssumption
  <2> QED
    BY <2>1, SeqMonotonic DEF Texts
<1>2. ASSUME NEW texts \in SUBSET UserTexts
      PROVE  SetToSeq(texts) \in Seq(Texts)
  <2>1. IsFiniteSet(texts)
    BY FS_Subset, NotesAssumption
  <2>2. SetToSeq(texts) \in Seq(texts)
    BY <2>1, SetToSeqType
  <2>3. texts \subseteq Texts
    BY DEF Texts
  <2> QED
    BY <2>2, <2>3, SeqMonotonic
<1> QED
  BY <1>1, <1>2 DEF Texts

\* The copies of what a request has read: each text is one of them, at a place of its own.
LEMMA ReadCopied ==
  ASSUME NEW read \in UNION {[S -> Texts] : S \in SUBSET Ids}
  PROVE  /\ Copies(read) \in Seq(Texts)
         /\ \E place \in [DOMAIN read -> DOMAIN Copies(read)] :
              \A i \in DOMAIN read :
                /\ Copies(read)[place[i]] = read[i]
                /\ \A l \in DOMAIN read : place[i] = place[l] => i = l
<1> DEFINE ids == SetToSeq(DOMAIN read)
<1>1. DOMAIN read \in SUBSET Ids /\ \A i \in DOMAIN read : read[i] \in Texts
  OBVIOUS
<1>2. IsFiniteSet(DOMAIN read)
  <2>1. IsFiniteSet(1..MaxNotes)
    BY FS_Interval, NotesAssumption
  <2> QED
    BY <1>1, <2>1, FS_Subset DEF Ids
<1>3. ids \in Seq(DOMAIN read) /\ \A i \in DOMAIN read : \E k \in DOMAIN ids : ids[k] = i
  BY <1>2, SetToSeqType
<1>4. DOMAIN ids = 1..Len(ids) /\ Len(ids) \in Nat /\ \A k \in DOMAIN ids : ids[k] \in DOMAIN read
  BY <1>3, LenProperties, ElementOfSeq
<1>5. Copies(read) = [k \in DOMAIN ids |-> read[ids[k]]]
  BY DEF Copies
<1> HIDE DEF ids
<1>6. Copies(read) \in [1..Len(ids) -> Texts]
  BY <1>1, <1>4, <1>5
<1>7. Copies(read) \in Seq(Texts)
  BY <1>4, <1>6
<1> DEFINE place == [i \in DOMAIN read |-> CHOOSE k \in DOMAIN ids : ids[k] = i]
<1>8. \A i \in DOMAIN read : place[i] \in DOMAIN ids /\ ids[place[i]] = i
  BY <1>3
<1>9. place \in [DOMAIN read -> DOMAIN ids]
  BY <1>8
<1> HIDE DEF place
<1>10. place \in [DOMAIN read -> DOMAIN Copies(read)]
  BY <1>5, <1>9
<1>11. ASSUME NEW i \in DOMAIN read
       PROVE  /\ Copies(read)[place[i]] = read[i]
              /\ \A l \in DOMAIN read : place[i] = place[l] => i = l
  BY <1>5, <1>8
<1> QED
  BY <1>7, <1>10, <1>11

\* Every step keeps the table.
LEMMA TableStep ==
  ASSUME NotesInv, [NotesNext]_vars
  PROVE  TableKept(notes')
<1> USE DEF NotesInv
<1>1. ASSUME NEW c \in Clients, UNCHANGED notes
      PROVE  TableKept(notes')
  BY <1>1, WithoutTable
<1>2. ASSUME NEW c \in Clients, ImportLegacyNotes(c)
      PROVE  TableKept(notes')
  <2>1. client[c].job \in Jobs
    BY <1>2 DEF ImportLegacyNotes, HasJob
  <2>2. TableKept(notes)
    BY WithoutTable
  <2> QED
    BY <1>2, <2>1, <2>2, InsertTable, ListsOfTexts, ZenonT(60) DEF ImportLegacyNotes
<1>3. ASSUME NEW c \in Clients, NEW j \in created, NEW t \in UserTexts, SaveNote(c, j, t)
      PROVE  TableKept(notes')
  <2>1. j \in Jobs
    BY DEF NotesTypeOK
  <2>2. TableKept(notes)
    BY WithoutTable
  <2> QED
    BY <1>3, <2>1, <2>2, InsertTable, ListsOfTexts DEF SaveNote
<1>4. ASSUME NEW c \in Clients, NEW texts \in SUBSET UserTexts, ReplaceNotes(c, texts)
      PROVE  TableKept(notes')
  <2>1. client[c].job \in Jobs
    BY <1>4 DEF ReplaceNotes, HasJob
  <2>2. TableKept(Without(client[c].ids)) /\ Len(Without(client[c].ids)) = Len(notes)
    BY WithoutTable, WithoutKeeps
  <2>3. SetToSeq(texts) \in Seq(Texts)
    BY ListsOfTexts
  <2> QED
    BY <1>4, <2>1, <2>2, <2>3, InsertTable DEF ReplaceNotes
<1>5. ASSUME NEW c \in Clients, NEW t \in UserTexts, UpdateNote(c, t)
      PROVE  TableKept(notes')
  <2>1. notes \in Table /\ Len(notes) \in Nat /\ Len(notes) <= MaxNotes /\ DOMAIN notes = 1..Len(notes)
    BY LenProperties DEF NotesTypeOK, Table
  <2>2. ASSUME NEW i \in DOMAIN notes, notes[i] # None
        PROVE  /\ [notes[i] EXCEPT !.text = t] \in Note
               /\ [notes[i] EXCEPT !.text = t].job = notes[i].job
    <3>1. notes[i] \in Note
      BY <2>1, <2>2, ElementOfSeq DEF Table
    <3> QED
      BY <3>1 DEF Note, Texts
  <2>3. \A i \in DOMAIN notes :
          notes'[i] = IF i \in client[c].ids /\ notes[i] # None
                        THEN [notes[i] EXCEPT !.text = t] ELSE notes[i]
    BY <1>5 DEF UpdateNote
  <2>4. \A i \in DOMAIN notes : notes'[i] \in Note \cup {None}
    BY <2>1, <2>2, <2>3, ElementOfSeq DEF Table
  <2>5. notes' \in [1..Len(notes) -> Note \cup {None}]
    BY <1>5, <2>1, <2>4 DEF UpdateNote
  <2>6. notes' \in Table /\ Len(notes') = Len(notes)
    BY <2>1, <2>5 DEF Table
  <2>7. \A i \in DOMAIN notes : notes'[i] # None => notes[i] # None /\ notes'[i].job = notes[i].job
    BY <2>2, <2>3
  <2>8. \A i \in DOMAIN notes : notes[i] # None /\ notes'[i] = None => i \in client[c].ids
    BY <2>3
  <2> QED
    BY <2>1, <2>6, <2>7, <2>8 DEF TableKept
<1>6. ASSUME NEW c \in Clients, DeleteNote(c)
      PROVE  TableKept(notes')
  BY <1>6, WithoutTable DEF DeleteNote
<1>7. ASSUME NEW c \in Clients, Ingest(c)
      PROVE  TableKept(notes')
  <2>1. CASE UNCHANGED <<notes, created>>
    BY <2>1, <1>1
  <2>2. CASE \E j \in NewJobs \ created :
               Room(Copies(client[c].read)) /\ j \in Jobs /\ notes' = CopyNotes(c, j)
    <3>1. TableKept(notes) /\ Copies(client[c].read) \in Seq(Texts)
      BY WithoutTable, ReadCopied DEF NotesTypeOK, Client
    <3> QED
      BY <2>2, <3>1, InsertTable DEF CopyNotes
  <2> QED
    BY <1>7, <2>1, <2>2, NotesAssumption DEF Ingest
<1>8. CASE UNCHANGED vars
  BY <1>8, LenProperties DEF vars, TableKept, Table, NotesTypeOK
<1> QED
  BY <1>1, <1>2, <1>3, <1>4, <1>5, <1>6, <1>7, <1>8
     DEF NotesNext, CountNotes, StartReplacing, CountToCopy, ReadNote, DeleteNotes, ReadToCopy

-----------------------------------------------------------------------------
(* What a step does to the requests. *)

\* One request as the invariant wants it, beside a given table.
Sound(table, r) ==
  /\ r \in Client
  /\ r.pc # "idle" => r.job \in Jobs
  /\ r.pc \in {"copy import", "copy", "ingest"} =>
       /\ r.ids \subseteq DOMAIN table
       /\ \A i \in r.ids : table[i] # None => table[i].job = r.job
  /\ r.pc = "ingest" => {i \in r.ids : table[i] # None} \subseteq DOMAIN r.read

LEMMA SoundRequests ==
  ASSUME client \in [Clients -> Client]
  PROVE  HasJob /\ OfSource /\ AllRead <=> \A c \in Clients : Sound(notes, client[c])
BY DEF HasJob, OfSource, AllRead, Remaining, Sound

\* The notes of a job are ids, finitely many.
LEMMA NotesOfIds ==
  ASSUME NotesTypeOK, NEW j
  PROVE  NotesOf(j) \in SUBSET Ids /\ IsFiniteSet(NotesOf(j))
<1>1. DOMAIN notes = 1..Len(notes) /\ Len(notes) \in Nat /\ Len(notes) <= MaxNotes
  BY LenProperties DEF NotesTypeOK
<1>2. DOMAIN notes \subseteq Ids
  BY <1>1, NotesAssumption DEF Ids
<1>3. NotesOf(j) \subseteq DOMAIN notes
  BY DEF NotesOf
<1>4. IsFiniteSet(1..MaxNotes)
  BY FS_Interval, NotesAssumption
<1> QED
  BY <1>2, <1>3, <1>4, FS_Subset DEF Ids

\* A request stays as it should be when the table is kept.
LEMMA SoundStays ==
  ASSUME NotesTypeOK, NEW table, TableKept(table), NEW r, Sound(notes, r)
  PROVE  Sound(table, r)
<1>1. DOMAIN notes = 1..Len(notes) /\ Len(notes) \in Nat
  BY LenProperties DEF NotesTypeOK
<1>2. DOMAIN table = 1..Len(table) /\ Len(table) \in Nat
  BY LenProperties DEF TableKept, Table
<1>3. DOMAIN notes \subseteq DOMAIN table
  BY <1>1, <1>2 DEF TableKept
<1>4. \A i \in DOMAIN notes : table[i] # None => notes[i] # None /\ table[i].job = notes[i].job
  BY DEF TableKept
<1>5. ASSUME r.pc = "ingest"
      PROVE  {i \in r.ids : table[i] # None} \subseteq DOMAIN r.read
  <2>1. r.ids \subseteq DOMAIN notes
    BY <1>5 DEF Sound
  <2>2. {i \in r.ids : table[i] # None} \subseteq {i \in r.ids : notes[i] # None}
    BY <1>4, <2>1
  <2> QED
    BY <1>5, <2>2 DEF Sound
<1> QED
  BY <1>3, <1>4, <1>5 DEF Sound

\* A request that has read nothing.
LEMMA NothingRead == NewClient.read \in UNION {[S -> Texts] : S \in SUBSET Ids}
<1>1. NewClient.read \in [{} -> Texts] /\ {} \in SUBSET Ids
  BY DEF NewClient
<1> QED
  BY <1>1

\* A request that has not begun, or that goes on to a stage that copies nothing.
LEMMA SoundPlain ==
  ASSUME NEW table, NEW j, NEW ids \in SUBSET Ids,
         NEW pc \in {"import", "wait", "replace", "reply", "patch", "delete"}
  PROVE  /\ Sound(table, NewClient)
         /\ j \in Jobs => Sound(table, [NewClient EXCEPT !.pc = pc, !.job = j, !.ids = ids])
<1>1. NewClient.read \in UNION {[S -> Texts] : S \in SUBSET Ids}
  BY NothingRead
<1> QED
  BY <1>1 DEF Sound, NewClient, Client

\* An ingestion's request, from its count to its insert.
LEMMA SoundCopying ==
  ASSUME NotesTypeOK, NEW j \in Jobs, NEW pc \in {"copy import", "copy"}
  PROVE  Sound(notes, [NewClient EXCEPT !.pc = pc, !.job = j, !.ids = NotesOf(j)])
<1>1. NewClient.read \in UNION {[S -> Texts] : S \in SUBSET Ids}
  BY NothingRead
<1>2. NotesOf(j) \subseteq DOMAIN notes /\ \A i \in NotesOf(j) : notes[i].job = j
  BY DEF NotesOf
<1> QED
  BY <1>1, <1>2, NotesOfIds DEF Sound, NewClient, Client

\* Reading a job's notes reads the text of each note of the job.
LEMMA TextsRead ==
  ASSUME NotesTypeOK, NEW j
  PROVE  /\ TextsOf(j) \in UNION {[S -> Texts] : S \in SUBSET Ids}
         /\ DOMAIN TextsOf(j) = NotesOf(j)
<1>1. ASSUME NEW i \in NotesOf(j)
      PROVE  notes[i].text \in Texts
  <2>1. i \in DOMAIN notes /\ notes[i] # None
    BY DEF NotesOf
  <2>2. notes[i] \in Note \cup {None}
    BY <2>1, LenProperties, ElementOfSeq DEF NotesTypeOK
  <2> QED
    BY <2>1, <2>2 DEF Note
<1>2. TextsOf(j) \in [NotesOf(j) -> Texts]
  BY <1>1 DEF TextsOf
<1> QED
  BY <1>2, NotesOfIds

\* All requests are as they should be, after the step.
RequestsKept == client' \in [Clients -> Client] /\ HasJob' /\ OfSource' /\ AllRead'

\* When one request moves on, the others stay as they should be.
LEMMA OneMoves ==
  ASSUME NotesInv, TableKept(notes'), NEW c \in Clients, NEW r,
         Sound(notes', r) \/ r = client[c], client' = [client EXCEPT ![c] = r]
  PROVE  RequestsKept
<1>1. client \in [Clients -> Client]
  BY DEF NotesInv, NotesTypeOK
<1>2. ASSUME NEW d \in Clients
      PROVE  Sound(notes', client'[d])
  <2>1. Sound(notes, client[d])
    BY <1>1, SoundRequests DEF NotesInv
  <2>2. Sound(notes', client[d])
    BY <2>1, SoundStays DEF NotesInv
  <2> QED
    BY <1>1, <2>2
<1>3. \A d \in Clients : client'[d] \in Client
  BY <1>2 DEF Sound
<1>4. client' \in [Clients -> Client]
  BY <1>1, <1>3
<1> QED
  BY <1>2, <1>4 DEF RequestsKept, HasJob, OfSource, AllRead, Remaining, Sound

\* Every step keeps every request as it should be.
LEMMA RequestsStep ==
  ASSUME NotesInv, [NotesNext]_vars
  PROVE  RequestsKept
<1>1. TableKept(notes') /\ NotesTypeOK
  BY TableStep DEF NotesInv
<1>2. client \in [Clients -> Client] /\ \A c \in Clients : Sound(notes, client[c])
  BY SoundRequests DEF NotesInv, NotesTypeOK
<1>3. \A c \in Clients : client[c] \in Client /\ client[c].ids \in SUBSET Ids
  BY <1>2 DEF Client
<1>4. ASSUME NEW c \in Clients, Done(c)
      PROVE  RequestsKept
  <2>1. Sound(notes', NewClient)
    BY SoundPlain
  <2> QED
    BY <1>4, <2>1, <1>1, OneMoves DEF Done
<1>5. ASSUME NEW c \in Clients, NEW j \in Jobs, NEW ids \in SUBSET Ids,
             NEW pc \in {"import", "wait", "replace", "reply", "patch", "delete"}, Goes(c, pc, j, ids)
      PROVE  RequestsKept
  <2>1. Sound(notes', [NewClient EXCEPT !.pc = pc, !.job = j, !.ids = ids])
    BY SoundPlain
  <2> QED
    BY <1>5, <2>1, <1>1, OneMoves DEF Goes
<1>6. ASSUME NEW c \in Clients, NEW j \in Jobs, NEW pc \in {"copy import", "copy"},
             Goes(c, pc, j, NotesOf(j)), UNCHANGED notes
      PROVE  RequestsKept
  <2>1. Sound(notes', [NewClient EXCEPT !.pc = pc, !.job = j, !.ids = NotesOf(j)])
    BY <1>1, <1>6, SoundCopying
  <2> QED
    BY <1>6, <2>1, <1>1, OneMoves DEF Goes
<1>7. ASSUME NEW c \in Clients, NEW j \in created, CountNotes(c, j)
      PROVE  RequestsKept
  <2>1. j \in Jobs /\ {} \in SUBSET Ids
    BY <1>1 DEF NotesTypeOK
  <2> QED
    BY <1>7, <2>1, <1>4, <1>5 DEF CountNotes
<1>8. ASSUME NEW c \in Clients, NEW j \in created, StartReplacing(c, j)
      PROVE  RequestsKept
  <2>1. j \in Jobs /\ NotesOf(j) \in SUBSET Ids
    BY <1>1, NotesOfIds DEF NotesTypeOK
  <2> QED
    BY <1>8, <2>1, <1>5 DEF StartReplacing
<1>9. ASSUME NEW c \in Clients, NEW j \in created, CountToCopy(c, j)
      PROVE  RequestsKept
  <2>1. j \in Jobs
    BY <1>1 DEF NotesTypeOK
  <2> QED
    BY <1>9, <2>1, <1>6 DEF CountToCopy
<1>10. ASSUME NEW c \in Clients, NEW i \in DOMAIN notes, NEW pc \in {"patch", "delete"}, ReadNote(c, i, pc)
       PROVE  RequestsKept
  <2>1. DOMAIN notes = 1..Len(notes) /\ Len(notes) \in Nat /\ Len(notes) <= MaxNotes
    BY <1>1, LenProperties DEF NotesTypeOK
  <2>2. notes[i] \in Note
    BY <1>1, <1>10, <2>1, ElementOfSeq DEF NotesTypeOK, ReadNote
  <2>3. notes[i].job \in Jobs /\ {i} \in SUBSET Ids
    BY <2>1, <2>2, NotesAssumption DEF Note, Ids
  <2> QED
    BY <1>10, <2>3, <1>5 DEF ReadNote
<1>11. ASSUME NEW c \in Clients, DeleteNotes(c)
       PROVE  RequestsKept
  <2>1. client[c].job \in Jobs
    BY <1>11, <1>2 DEF DeleteNotes, Sound
  <2>2. client[c].ids \cap NotesOf(client[c].job) \in SUBSET Ids
    BY <1>3
  <2> QED
    BY <1>11, <2>1, <2>2, <1>5 DEF DeleteNotes
<1>12. ASSUME NEW c \in Clients, NEW texts \in SUBSET UserTexts, ReplaceNotes(c, texts)
       PROVE  RequestsKept
  <2>1. client[c].job \in Jobs /\ {} \in SUBSET Ids
    BY <1>12, <1>2 DEF ReplaceNotes, Sound
  <2> QED
    BY <1>12, <2>1, <1>5 DEF ReplaceNotes
<1>13. ASSUME NEW c \in Clients, ImportLegacyNotes(c)
       PROVE  RequestsKept
  <2>1. CASE Done(c)
    BY <2>1, <1>4
  <2>2. CASE client[c].pc = "copy import" /\ client' = [client EXCEPT ![c].pc = "copy"]
    <3>1. Sound(notes', client[c])
      BY <1>1, <1>2, SoundStays
    <3>2. Sound(notes', [client[c] EXCEPT !.pc = "copy"])
      BY <2>2, <3>1, <1>3 DEF Sound, Client
    <3>3. client' = [client EXCEPT ![c] = [client[c] EXCEPT !.pc = "copy"]]
      BY <2>2
    <3> QED
      BY <1>1, <3>2, <3>3, OneMoves
  <2> QED
    BY <1>13, <2>1, <2>2 DEF ImportLegacyNotes
<1>14. ASSUME NEW c \in Clients, ReadToCopy(c)
       PROVE  RequestsKept
  <2> DEFINE r == [client[c] EXCEPT !.pc = "ingest", !.read = TextsOf(client[c].job)]
  <2>1. client' = [client EXCEPT ![c] = r] /\ notes' = notes /\ client[c].pc = "copy"
    BY <1>2, <1>14 DEF ReadToCopy
  <2>2. /\ TextsOf(client[c].job) \in UNION {[S -> Texts] : S \in SUBSET Ids}
        /\ DOMAIN TextsOf(client[c].job) = NotesOf(client[c].job)
    BY <1>1, TextsRead
  <2>3. {i \in client[c].ids : notes[i] # None} \subseteq NotesOf(client[c].job)
    BY <1>2, <2>1 DEF Sound, NotesOf
  <2>4. /\ r.pc = "ingest" /\ r.job = client[c].job /\ r.ids = client[c].ids
        /\ r.read = TextsOf(client[c].job) /\ r \in Client
    BY <1>3, <2>2 DEF Client
  <2> HIDE DEF r
  <2>5. Sound(notes', r)
    BY <1>2, <2>1, <2>2, <2>3, <2>4 DEF Sound
  <2> QED
    BY <1>1, <2>1, <2>5, OneMoves
<1>15. CASE UNCHANGED client
  <2>1. ASSUME NEW c \in Clients
        PROVE  RequestsKept
    <3>1. client' = [client EXCEPT ![c] = client[c]]
      BY <1>2, <1>15
    <3> QED
      BY <1>1, <3>1, OneMoves
  <2>2. CASE Clients = {}
    BY <2>2, <1>2, <1>15 DEF RequestsKept, HasJob, OfSource, AllRead
  <2> QED
    BY <2>1, <2>2
<1>16. ASSUME NEW c \in Clients, NEW j \in created, NEW t \in UserTexts, SaveNote(c, j, t)
       PROVE  RequestsKept
  BY <1>15, <1>16 DEF SaveNote
<1>17. ASSUME NEW c \in Clients, NEW t \in UserTexts, UpdateNote(c, t)
       PROVE  RequestsKept
  BY <1>4, <1>17 DEF UpdateNote
<1>18. ASSUME NEW c \in Clients, DeleteNote(c) \/ Ingest(c)
       PROVE  RequestsKept
  BY <1>4, <1>18 DEF DeleteNote, Ingest
<1>19. CASE UNCHANGED vars
  BY <1>15, <1>19 DEF vars
<1> QED
  BY <1>7, <1>8, <1>9, <1>10, <1>11, <1>12, <1>13, <1>14, <1>16, <1>17, <1>18, <1>19 DEF NotesNext

-----------------------------------------------------------------------------
(* The invariant, and what it gives. *)

\* The service begins with an empty table and no request.
LEMMA NotesInitial == NotesInit => NotesInv
<1> SUFFICES ASSUME NotesInit
             PROVE  NotesInv
  OBVIOUS
<1>1. <<>> \in Seq(Note \cup {None}) /\ Len(<<>>) = 0
  BY EmptySeq
<1>2. NewClient \in Client /\ NewClient.pc = "idle"
  BY NothingRead DEF NewClient, Client
<1>3. Jobs \ NewJobs \in SUBSET Jobs /\ 0 <= MaxNotes
  BY NotesAssumption
<1> QED
  BY <1>1, <1>2, <1>3 DEF NotesInit, NotesInv, NotesTypeOK, HasJob, OfSource, AllRead

LEMMA NotesStep == NotesInv /\ [NotesNext]_vars => NotesInv'
<1> SUFFICES ASSUME NotesInv, [NotesNext]_vars
             PROVE  NotesInv'
  OBVIOUS
<1>1. TableKept(notes') /\ RequestsKept
  BY TableStep, RequestsStep
<1>2. created' \in SUBSET Jobs
  BY NotesAssumption DEF NotesInv, NotesTypeOK, NotesNext, Ingest, vars
<1> QED
  BY <1>1, <1>2 DEF NotesInv, NotesTypeOK, TableKept, Table, RequestsKept

\* Whatever requests interleave, the table holds at most MaxNotes rows, each a note of a
\* job or deleted, and every request has the shape its handler gives it.
THEOREM NotesTypes == NotesSpec => []NotesTypeOK
<1>1. NotesInv => NotesTypeOK
  BY DEF NotesInv
<1> QED
  BY <1>1, NotesInitial, NotesStep, PTL DEF NotesSpec

\* A deleted note never returns, whatever edits and replacements had read it before.
THEOREM NoNoteReturns == NotesSpec => DeletedForGood
<1>1. NotesInv /\ [NotesNext]_vars => [\A i \in DOMAIN notes : notes[i] = None => notes'[i] = None]_vars
  BY TableStep DEF TableKept
<1> QED
  BY <1>1, NotesInitial, NotesStep, PTL DEF NotesSpec, DeletedForGood

\* A note goes away only with a request that had read it, so replacing a job's notes
\* keeps what other requests post meanwhile.
THEOREM NoNoteLostUnseen == NotesSpec => UnseenNoteKept
<1>1. NotesInv /\ [NotesNext]_vars =>
        [\A i \in DOMAIN notes : notes[i] # None /\ notes'[i] = None =>
           \E c \in Clients : i \in client[c].ids]_vars
  BY TableStep DEF TableKept
<1> QED
  BY <1>1, NotesInitial, NotesStep, PTL DEF NotesSpec, UnseenNoteKept

\* The rows that Ingest appends for what it has read: each note read has one of its
\* own, a note of the new job with its text.
LEMMA NotesAppended ==
  ASSUME NotesTypeOK, NEW j \in Jobs, NEW read \in UNION {[S -> Texts] : S \in SUBSET Ids},
         notes' = Insert(notes, j, Copies(read)), NEW kept \in SUBSET DOMAIN read
  PROVE  \E copy \in Injection(kept, NotesOf(j)') : \A i \in kept : notes'[copy[i]].text = read[i]
<1> DEFINE n == Len(notes)
           m == Len(Copies(read))
<1>1. Copies(read) \in Seq(Texts)
  BY ReadCopied
<1>2. PICK place \in [DOMAIN read -> DOMAIN Copies(read)] :
        \A i \in DOMAIN read :
          /\ Copies(read)[place[i]] = read[i]
          /\ \A l \in DOMAIN read : place[i] = place[l] => i = l
  BY ReadCopied
<1>3. n \in Nat /\ m \in Nat /\ notes \in Table /\ DOMAIN Copies(read) = 1..m
  BY <1>1, LenProperties DEF NotesTypeOK, Table
<1>4. /\ Len(notes') = n + m /\ notes' \in Table
      /\ \A k \in 1..m : notes'[n + k] = [job |-> j, text |-> Copies(read)[k]]
  BY <1>1, <1>3, InsertAppends
<1>5. DOMAIN notes' = 1..(n + m)
  BY <1>4, LenProperties DEF Table
<1> DEFINE copy == [i \in kept |-> n + place[i]]
<1>6. ASSUME NEW i \in kept
      PROVE  copy[i] \in NotesOf(j)' /\ notes'[copy[i]].text = read[i]
  <2>1. place[i] \in 1..m /\ copy[i] = n + place[i]
    BY <1>2, <1>3
  <2>2. notes'[copy[i]] = [job |-> j, text |-> read[i]]
    BY <1>2, <1>4, <2>1
  <2>3. [job |-> j, text |-> read[i]] \in Note
    BY DEF Note
  <2>4. copy[i] \in DOMAIN notes'
    BY <1>3, <1>5, <2>1
  <2>5. notes'[copy[i]] # None /\ notes'[copy[i]].job = j /\ notes'[copy[i]].text = read[i]
    BY <2>2, <2>3, NotesAssumption
  <2> QED
    BY <2>4, <2>5 DEF NotesOf
<1>7. ASSUME NEW i \in kept, NEW l \in kept, copy[i] = copy[l]
      PROVE  i = l
  <2>1. place[i] \in 1..m /\ place[l] \in 1..m /\ n + place[i] = n + place[l]
    BY <1>2, <1>3, <1>7
  <2>2. place[i] = place[l]
    BY <1>3, <2>1
  <2> QED
    BY <1>2, <2>2
<1>8. copy \in [kept -> NotesOf(j)'] /\ DOMAIN copy = kept
  BY <1>6
<1> HIDE DEF copy
<1>9. copy \in Injection(kept, NotesOf(j)')
  BY <1>7, <1>8 DEF Injection, IsInjective
<1> QED
  BY <1>6, <1>9

\* Ingesting a domain again keeps its notes: the new job begins with a copy of its own
\* for each of them that has not been deleted since the request counted them, with the
\* text that the note had when the request read it.
THEOREM NotesSurviveIngestion == NotesSpec => NotesCopied
<1> DEFINE Read(c) == \A i \in Remaining(c) :
             i \in DOMAIN client'[c].read /\ client'[c].read[i] = notes[i].text
           Copied(c, j) == \E copy \in Injection(Remaining(c), NotesOf(j)') :
             \A i \in Remaining(c) : notes'[copy[i]].text = client[c].read[i]
<1>1. ASSUME NotesInv, NotesNext, NEW c \in Clients, client[c].pc = "copy", client'[c].pc = "ingest"
      PROVE  Read(c)
  <2>1. client \in [Clients -> Client]
    BY <1>1 DEF NotesInv, NotesTypeOK
  <2>2. PICK d \in Clients : ReadToCopy(d) /\ c = d
    BY <1>1, <2>1
       DEF NotesNext, CountNotes, StartReplacing, CountToCopy, SaveNote, ReadNote, UpdateNote, ReplaceNotes,
           DeleteNotes, ImportLegacyNotes, DeleteNote, ReadToCopy, Ingest, Goes, Done, NewClient
  <2>3. client'[c].read = TextsOf(client[c].job)
    BY <2>1, <2>2 DEF ReadToCopy, Client
  <2>4. Remaining(c) \subseteq NotesOf(client[c].job)
    BY <1>1 DEF NotesInv, OfSource, Remaining, NotesOf
  <2> QED
    BY <2>3, <2>4 DEF TextsOf
<1>2. ASSUME NotesInv, NotesNext, NEW c \in Clients, NEW j \in created' \ created,
             client[c].pc = "ingest", client'[c].pc = "idle"
      PROVE  Copied(c, j)
  <2>1. PICK d \in Clients : Ingest(d)
    BY <1>2 DEF NotesNext
  <2>2. Done(d) /\ client[d].pc = "ingest"
    BY <2>1 DEF Ingest
  <2>3. c = d
    BY <1>2, <2>2 DEF Done, NotesInv, NotesTypeOK
  <2>4. notes' = Insert(notes, j, Copies(client[c].read)) /\ j \in Jobs
    BY <1>2, <2>1, <2>3, NotesAssumption DEF Ingest, CopyNotes
  <2>5. client[c].read \in UNION {[S -> Texts] : S \in SUBSET Ids}
    BY <1>2 DEF NotesInv, NotesTypeOK, Client
  <2>6. Remaining(c) \in SUBSET DOMAIN client[c].read
    BY <1>2 DEF NotesInv, AllRead
  <2> QED
    BY <1>2, <2>4, <2>5, <2>6, NotesAppended DEF NotesInv
<1>3. ASSUME NotesInv, [NotesNext]_vars
      PROVE  [\A c \in Clients :
                LET kept == {i \in client[c].ids : notes[i] # None} IN
                  /\ client[c].pc = "copy" /\ client'[c].pc = "ingest" =>
                       \A i \in kept : i \in DOMAIN client'[c].read /\ client'[c].read[i] = notes[i].text
                  /\ \A j \in created' \ created : client[c].pc = "ingest" /\ client'[c].pc = "idle" =>
                       \E copy \in Injection(kept, NotesOf(j)') :
                         \A i \in kept : notes'[copy[i]].text = client[c].read[i]]_vars
  BY <1>1, <1>2, <1>3, Zenon DEF Remaining
<1> QED
  BY <1>3, NotesInitial, NotesStep, PTL DEF NotesSpec, NotesCopied
=============================================================================
