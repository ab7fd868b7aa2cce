---------------------------- MODULE ReviewDomains ----------------------------
(***************************************************************************)
(* The domains offered for review.  A domain is listed with its newest     *)
(* ingestion job unless the review_domain_archive table has it: deleting a *)
(* domain archives it, ingesting it again takes it out of the archive.     *)
(* Each request reads in several statements, without locks, and writes in  *)
(* one commit; requests run at the same time.                              *)
(***************************************************************************)
EXTENDS Integers, SequencesExt

CONSTANTS
  Domains,
  ProtectedDomains, \* PROTECTED_REVIEW_DOMAIN_NAMES: the list leaves them out
  Status,           \* the job statuses told apart
  Clients,          \* the requests that may be under way at once
  MaxJobs           \* bound on the ingestions ever requested

ASSUME ReviewAssumption ==
  /\ MaxJobs \in Nat
  /\ Domains # {} /\ ProtectedDomains \subseteq Domains
  /\ "pending" \in Status
  /\ Status \subseteq {"pending", "running", "completed", "failed", "stopped"}

VARIABLES
  jobs,          \* the ingestion jobs, by created_at: of which domain, with what status
  archive,       \* per domain, 0 or the source job with which it is archived
  client,        \* per client, how far its request is
  deleted        \* history: the domains whose deletion was confirmed, not ingested since

vars == <<jobs, archive, client, deleted>>

-----------------------------------------------------------------------------
ActiveStatuses == {"pending", "running", "stopping"}   \* nothing sets the last one
Job == [domain: Domains, status: Status]

\* What a request works with: the job to delete or the domain to ingest, and what
\* it has read of them; for a list, the newest job there was, the jobs listed, and,
\* as history, what was deleted when it was asked for.
Client == [pc: {"idle", "latest", "archive", "deleting", "ingesting", "listing", "replying"},
           job: 0..MaxJobs, status: Status, domain: Domains, archived: BOOLEAN,
           listed: SUBSET (1..MaxJobs), hidden: SUBSET Domains]

NewClient == [pc |-> "idle", job |-> 0, status |-> "pending",
              domain |-> CHOOSE d \in Domains : TRUE, archived |-> FALSE,
              listed |-> {}, hidden |-> {}]

ReviewTypeOK ==
  /\ \E n \in 0..MaxJobs : jobs \in [1..n -> Job]
  /\ archive \in [Domains -> 0..MaxJobs]
  /\ client \in [Clients -> Client]
  /\ deleted \in SUBSET Domains

ReviewInit ==
  /\ jobs = <<>>
  /\ archive = [d \in Domains |-> 0]
  /\ client = [c \in Clients |-> NewClient]
  /\ deleted = {}

JobsOf(d) == {j \in DOMAIN jobs : jobs[j].domain = d}
LatestJob(d) == CHOOSE j \in JobsOf(d) : \A i \in JobsOf(d) : i <= j
Archived(d) == archive[d] # 0
Done(c) == client' = [client EXCEPT ![c] = NewClient]

\* The task manager, the ingestion task and the stop button change a job's status.
JobMoves(j) ==
  /\ \E s \in Status : jobs' = [jobs EXCEPT ![j].status = s]
  /\ UNCHANGED <<archive, client, deleted>>

-----------------------------------------------------------------------------
(* DELETE /ontology/domains/review/<job>. *)

\* The request reads the job: its status is not read again ...
DeleteRead(c, j) ==
  /\ client[c].pc = "idle"
  /\ client' = [client EXCEPT ![c] = [NewClient EXCEPT !.pc = "latest", !.job = j,
                                         !.status = jobs[j].status, !.domain = jobs[j].domain]]
  /\ UNCHANGED <<jobs, archive, deleted>>

\* ... then the domain's newest job; it answers 409 if that is another one, or
\* the job is active ...
MayDelete(c) ==
  /\ client[c].job = LatestJob(client[c].domain)
  /\ client[c].status \notin ActiveStatuses

DeleteCheckLatest(c) ==
  /\ client[c].pc = "latest"
  /\ IF MayDelete(c) THEN client' = [client EXCEPT ![c].pc = "archive"] ELSE Done(c)
  /\ UNCHANGED <<jobs, archive, deleted>>

\* ... then the archive's row ...
DeleteReadArchive(c) ==
  /\ client[c].pc = "archive"
  /\ client' = [client EXCEPT ![c].pc = "deleting", ![c].archived = Archived(client[c].domain)]
  /\ UNCHANGED <<jobs, archive, deleted>>

CanArchiveAlways(c) == TRUE                                          \* bug: lost rows unnoticed
\* The commit inserts a row, or updates the one that was read; it fails, with an
\* error reply, if another request has inserted it or has deleted it meanwhile.
CanArchive(c) == client[c].archived = Archived(client[c].domain)

\* An UPDATE of a row that has gone changes nothing.
ArchiveRow(c) ==
  [archive EXCEPT ![client[c].domain] = IF client[c].archived /\ @ = 0 THEN @ ELSE client[c].job]

DeleteWrite(c) ==
  /\ client[c].pc = "deleting"
  /\ IF CanArchive(c)
     THEN /\ archive' = ArchiveRow(c)
          /\ deleted' = deleted \cup {client[c].domain}
     ELSE UNCHANGED <<archive, deleted>>
  /\ Done(c)
  /\ UNCHANGED jobs

-----------------------------------------------------------------------------
(* POST /ontology/ingest. *)

\* The request reads the archive's row ...
IngestRead(c, d) ==
  /\ client[c].pc = "idle"
  /\ client' = [client EXCEPT ![c] = [NewClient EXCEPT !.pc = "ingesting", !.domain = d,
                                                       !.archived = Archived(d)]]
  /\ UNCHANGED <<jobs, archive, deleted>>

\* ... deletes it, if there was one (and it is no error if it has gone) ...
Unarchive(c) ==
  [archive EXCEPT ![client[c].domain] = IF client[c].archived THEN 0 ELSE @]

NewJobQueued(d) == [domain |-> d, status |-> "queued"]                \* bug: no such status
NewJob(d) == [domain |-> d, status |-> "pending"]

\* ... with the commit that inserts the job; a database error undoes both.
IngestWrite(c) ==
  LET d == client[c].domain IN
    /\ client[c].pc = "ingesting"
    /\ \/ /\ Len(jobs) < MaxJobs
          /\ jobs' = Append(jobs, NewJob(d))
          /\ archive' = Unarchive(c)
          /\ deleted' = deleted \ {d}
       \/ UNCHANGED <<jobs, archive, deleted>>
    /\ Done(c)

-----------------------------------------------------------------------------
(* GET /ontology/domains/review. *)

\* The request reads the jobs ...
ListRead(c) ==
  /\ client[c].pc = "idle"
  /\ client' = [client EXCEPT ![c] = [NewClient EXCEPT !.pc = "listing", !.job = Len(jobs),
                                                       !.hidden = deleted]]
  /\ UNCHANGED <<jobs, archive, deleted>>

\* ... then the archive: what is listed is the newest of the jobs it has read, for
\* every domain that is neither archived nor protected ...
Listed(n) ==
  {j \in 1..n : /\ \A i \in 1..n : jobs[i].domain = jobs[j].domain => i <= j
                /\ ~Archived(jobs[j].domain) /\ jobs[j].domain \notin ProtectedDomains}

ListReadArchive(c) ==
  /\ client[c].pc = "listing"
  /\ client' = [client EXCEPT ![c].pc = "replying", ![c].listed = Listed(client[c].job)]
  /\ UNCHANGED <<jobs, archive, deleted>>

\* ... and the notes of the jobs listed, and answers with a page of them.
ListReply(c) ==
  /\ client[c].pc = "replying"
  /\ Done(c)
  /\ UNCHANGED <<jobs, archive, deleted>>

\* The list is sorted by a key and by the job's ID where keys are equal (here: by
\* the time of creation), upwards or downwards, and cut into pages.
Before(i, j, asc) == IF asc THEN i < j ELSE j < i
Sorted(listed, asc) ==
  CHOOSE list \in [1..Cardinality(listed) -> listed] :
    \A i, k \in DOMAIN list : i < k => Before(list[i], list[k], asc)

TotalPagesFull(n, per_page) == n \div per_page           \* bug: forgets the last, short page
TotalPages(n, per_page) == IF n = 0 THEN 0 ELSE (n + per_page - 1) \div per_page

PageOf(list, page, per_page) ==
  SubSeq(list, (page - 1) * per_page + 1, IF page * per_page < Len(list) THEN page * per_page ELSE Len(list))

HasNext(list, page, per_page) == page < TotalPages(Len(list), per_page)
HasPrevious(list, page, per_page) == page > 1 /\ TotalPages(Len(list), per_page) > 0

ReviewNext ==
  \/ \E j \in DOMAIN jobs : JobMoves(j)
  \/ \E c \in Clients :
       \/ \E j \in DOMAIN jobs : DeleteRead(c, j)
       \/ DeleteCheckLatest(c) \/ DeleteReadArchive(c) \/ DeleteWrite(c)
       \/ \E d \in Domains : IngestRead(c, d)
       \/ IngestWrite(c)
       \/ ListRead(c) \/ ListReadArchive(c) \/ ListReply(c)

ReviewSpec == ReviewInit /\ [][ReviewNext]_vars

-----------------------------------------------------------------------------
(* Properties. *)

\* "Domain has changed. Refresh before deleting.": a domain that was ingested
\* again is not hidden by a deletion that was asked for before.
ArchivedAsOfLatestJob ==
  \A d \in Domains : Archived(d) => archive[d] = LatestJob(d)

\* A deletion that was confirmed hides the domain until it is ingested again: no
\* other request, however it interleaves, brings the domain back.
ConfirmedDeletionHides ==
  \A d \in deleted : Archived(d)

\* A list that is asked for after a deletion was confirmed does not show the domain,
\* unless it has been ingested again, although the request reads the jobs and the
\* archive in two statements.
ListingHidesDeleted ==
  \A c \in Clients : client[c].pc = "replying" =>
    \A j \in client[c].listed : jobs[j].domain \in client[c].hidden =>
      \E i \in DOMAIN jobs : i > client[c].job /\ jobs[i].domain = jobs[j].domain

\* Going from the first page to the next while there is one shows every domain of
\* the list once, in order: each page but the last is full, the last has the rest,
\* and what has place i in the list has the place on the pages that i comes to;
\* there is a way back from each page but the first.
PagesShowList ==
  \A c \in Clients : client[c].pc = "replying" =>
    \A per_page \in 1..MaxJobs, asc \in BOOLEAN :
      LET list == Sorted(client[c].listed, asc)
          Walked(n) == \A page \in 1..(n - 1) : HasNext(list, page, per_page)
          last == CHOOSE n \in 1..(MaxJobs + 1) : Walked(n) /\ ~HasNext(list, n, per_page)
          Shown(page) == PageOf(list, page, per_page)
      IN /\ \A page \in 1..last :
              /\ Len(Shown(page)) = IF page < last THEN per_page ELSE Len(list) - (last - 1) * per_page
              /\ HasPrevious(list, page, per_page) <=> page > 1
         /\ \A i \in DOMAIN list :
              list[i] = Shown(((i - 1) \div per_page) + 1)[((i - 1) % per_page) + 1]
=============================================================================
