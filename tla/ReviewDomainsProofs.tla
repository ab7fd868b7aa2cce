------------------------- MODULE ReviewDomainsProofs -------------------------
(* Theorems about ReviewDomains, for any domains, requests and bounds. *)
EXTENDS ReviewDomains, SequenceTheorems, FiniteSetTheorems, TLAPS

\* What the requests rely on: a deletion that is past its first read has a job,
\* so the row it archives the domain with is not taken for no row.
HasJob == \A c \in Clients : client[c].pc \in {"latest", "archive", "deleting"} => client[c].job # 0

\* The types without the bound on the number of jobs.
LooseClient == [pc: {"idle", "latest", "archive", "deleting", "ingesting", "listing", "replying"},
                job: Nat, status: Status, domain: Domains, archived: BOOLEAN,
                listed: SUBSET Nat, hidden: SUBSET Domains]
Types ==
  /\ jobs \in Seq(Job)
  /\ archive \in [Domains -> Nat]
  /\ client \in [Clients -> LooseClient]
  /\ deleted \in SUBSET Domains

ReviewInv == Types /\ HasJob /\ ConfirmedDeletionHides

\* An idle client has the type of a client.
LEMMA NewClientType == NewClient \in LooseClient /\ NewClient.pc = "idle"
<1>1. (CHOOSE d \in Domains : TRUE) \in Domains
  BY ReviewAssumption
<1> QED
  BY <1>1, ReviewAssumption DEF NewClient, LooseClient

\* No step breaks the types or leaves a deletion without a job.
LEMMA TypesStep == ReviewInv /\ [ReviewNext]_vars => Types' /\ HasJob'
<1> SUFFICES ASSUME ReviewInv, [ReviewNext]_vars
             PROVE  Types' /\ HasJob'
  OBVIOUS
<1> USE DEF ReviewInv, Types, HasJob
<1>1. CASE \E j \in DOMAIN jobs : JobMoves(j)
  <2>1. PICK j \in DOMAIN jobs, s \in Status :
          /\ jobs' = [jobs EXCEPT ![j].status = s]
          /\ UNCHANGED <<archive, client, deleted>>
    BY <1>1 DEF JobMoves
  <2>2. jobs[j] \in Job
    BY <2>1
  <2>3. [jobs[j] EXCEPT !.status = s] \in Job
    BY <2>2 DEF Job
  <2>4. jobs' \in Seq(Job)
    BY <2>1, <2>3
  <2> QED
    BY <2>1, <2>4
<1>2. ASSUME NEW c \in Clients, NEW j \in DOMAIN jobs, DeleteRead(c, j)
      PROVE  Types' /\ HasJob'
  <2>1. j \in Nat \ {0} /\ jobs[j] \in Job
    OBVIOUS
  <2> QED
    BY <1>2, <2>1, NewClientType DEF DeleteRead, LooseClient, Job, NewClient
<1>3. ASSUME NEW c \in Clients, DeleteCheckLatest(c) \/ DeleteReadArchive(c)
      PROVE  Types' /\ HasJob'
  <2>1. CASE DeleteCheckLatest(c)
    <3>1. CASE client' = [client EXCEPT ![c].pc = "archive"]
      BY <2>1, <3>1 DEF DeleteCheckLatest, LooseClient
    <3>2. CASE Done(c)
      BY <2>1, <3>2, NewClientType DEF DeleteCheckLatest, Done
    <3> QED
      BY <2>1, <3>1, <3>2 DEF DeleteCheckLatest
  <2>2. CASE DeleteReadArchive(c)
    <3>1. Archived(client[c].domain) \in BOOLEAN
      BY DEF Archived
    <3> QED
      BY <2>2, <3>1, ZenonT(60) DEF DeleteReadArchive, LooseClient
  <2> QED
    BY <1>3, <2>1, <2>2
<1>4. ASSUME NEW c \in Clients, DeleteWrite(c)
      PROVE  Types' /\ HasJob'
  <2>1. ArchiveRow(c) \in [Domains -> Nat]
    BY DEF ArchiveRow, LooseClient
  <2> QED
    BY <1>4, <2>1, NewClientType DEF DeleteWrite, Done, LooseClient, NewClient
<1>5. ASSUME NEW c \in Clients, NEW d \in Domains, IngestRead(c, d)
      PROVE  Types' /\ HasJob'
  BY <1>5, NewClientType DEF IngestRead, Archived, LooseClient, NewClient
<1>6. ASSUME NEW c \in Clients, IngestWrite(c)
      PROVE  Types' /\ HasJob'
  <2>1. Unarchive(c) \in [Domains -> Nat]
    BY DEF Unarchive, LooseClient
  <2>2. NewJob(client[c].domain) \in Job
    BY ReviewAssumption DEF NewJob, Job, LooseClient
  <2>3. jobs' \in Seq(Job)
    BY <1>6, <2>2 DEF IngestWrite
  <2> QED
    BY <1>6, <2>1, <2>3, NewClientType DEF IngestWrite, Done, LooseClient, NewClient
<1>7. ASSUME NEW c \in Clients, ListRead(c)
      PROVE  Types' /\ HasJob'
  <2>1. [NewClient EXCEPT !.pc = "listing", !.job = Len(jobs), !.hidden = deleted] \in LooseClient
    BY NewClientType, LenProperties DEF LooseClient
  <2> QED
    BY <1>7, <2>1, NewClientType DEF ListRead, LooseClient
<1>8. ASSUME NEW c \in Clients, ListReadArchive(c)
      PROVE  Types' /\ HasJob'
  <2>1. client[c] \in LooseClient
    OBVIOUS
  <2>2. Listed(client[c].job) \in SUBSET Nat
    BY <2>1 DEF Listed, LooseClient
  <2> QED
    BY <1>8, <2>2, ZenonT(60) DEF ListReadArchive, LooseClient
<1>9. ASSUME NEW c \in Clients, ListReply(c)
      PROVE  Types' /\ HasJob'
  BY <1>9, NewClientType DEF ListReply, Done
<1>10. CASE UNCHANGED vars
  BY <1>10 DEF vars
<1> QED
  BY <1>1, <1>2, <1>3, <1>4, <1>5, <1>6, <1>7, <1>8, <1>9, <1>10 DEF ReviewNext

\* No step brings a domain back whose deletion was confirmed.
LEMMA HidesStep == ReviewInv /\ [ReviewNext]_vars => ConfirmedDeletionHides'
<1> SUFFICES ASSUME ReviewInv, [ReviewNext]_vars
             PROVE  ConfirmedDeletionHides'
  OBVIOUS
<1> USE DEF ReviewInv, ConfirmedDeletionHides, Archived
<1>1. CASE UNCHANGED <<archive, deleted>>
  BY <1>1
<1>2. ASSUME NEW c \in Clients, DeleteWrite(c), CanArchive(c)
      PROVE  ConfirmedDeletionHides'
  <2>1. client[c].domain \in Domains /\ client[c].job # 0
    BY <1>2 DEF Types, LooseClient, HasJob, DeleteWrite
  <2>2. archive' = [archive EXCEPT ![client[c].domain] = client[c].job]
    BY <1>2, <2>1 DEF DeleteWrite, CanArchive, ArchiveRow, Types
  <2> QED
    BY <1>2, <2>1, <2>2 DEF DeleteWrite, Types
<1>3. ASSUME NEW c \in Clients, IngestWrite(c), ~UNCHANGED <<archive, deleted>>
      PROVE  ConfirmedDeletionHides'
  BY <1>3 DEF IngestWrite, Unarchive, Types, LooseClient
<1> QED
  BY <1>1, <1>2, <1>3 DEF ReviewNext, JobMoves, DeleteRead, DeleteCheckLatest, DeleteReadArchive,
     DeleteWrite, IngestRead, ListRead, ListReadArchive, ListReply, vars

\* A confirmed deletion hides the domain until it is ingested again, for any number
\* of domains, jobs and concurrent requests.
THEOREM DeletionHides == ReviewSpec => []ConfirmedDeletionHides
<1>1. ReviewInit => ReviewInv
  <2> SUFFICES ASSUME ReviewInit
               PROVE  ReviewInv
    OBVIOUS
  <2>1. Types
    BY NewClientType DEF ReviewInit, Types
  <2>2. HasJob /\ ConfirmedDeletionHides
    BY NewClientType DEF ReviewInit, HasJob, ConfirmedDeletionHides
  <2> QED
    BY <2>1, <2>2 DEF ReviewInv
<1>2. ReviewInv /\ [ReviewNext]_vars => ReviewInv'
  BY TypesStep, HidesStep DEF ReviewInv
<1>3. ReviewInv => ConfirmedDeletionHides
  BY DEF ReviewInv
<1> QED
  BY <1>1, <1>2, <1>3, PTL DEF ReviewSpec

-----------------------------------------------------------------------------
(* Lists. *)

\* Domain d was ingested again after n jobs had been.
Again(d, n) == \E i \in DOMAIN jobs : i > n /\ jobs[i].domain = d

\* What a list that has read the jobs relies on: what was deleted when it was asked
\* for still is, or has been ingested again since, and what it shows is the latter.
ListOK(c) ==
  /\ client[c].pc = "listing" =>
       /\ client[c].job <= Len(jobs)
       /\ \A d \in client[c].hidden : d \in deleted \/ Again(d, client[c].job)
  /\ client[c].pc = "replying" =>
       /\ client[c].job <= Len(jobs)
       /\ client[c].listed \in SUBSET (1..client[c].job)
       /\ \A j \in client[c].listed :
            jobs[j].domain \in client[c].hidden => Again(jobs[j].domain, client[c].job)

ListInv == \A c \in Clients : ListOK(c)

\* A step that only adds jobs, keeps the domain of those there are, and takes no
\* domain from the deleted ones that it does not ingest keeps what lists rely on.
LEMMA ListsUndisturbed ==
  ASSUME ReviewInv, ListInv, Len(jobs) <= Len(jobs'), Len(jobs') \in Nat,
         DOMAIN jobs' = 1..Len(jobs'),
         \A j \in DOMAIN jobs : jobs'[j].domain = jobs[j].domain,
         \A d \in deleted \ deleted' : \E i \in DOMAIN jobs' : i > Len(jobs) /\ jobs'[i].domain = d,
         NEW c \in Clients, client'[c] = client[c] \/ client'[c].pc \notin {"listing", "replying"}
  PROVE  ListOK(c)'
<1>1. client[c] \in LooseClient /\ client[c].job \in Nat /\ Len(jobs) \in Nat
  BY DEF ReviewInv, Types, LooseClient
<1>2. DOMAIN jobs = 1..Len(jobs)
  BY DEF ReviewInv, Types
<1>3. ASSUME NEW d, Again(d, client[c].job)
      PROVE  \E i \in DOMAIN jobs' : i > client[c].job /\ jobs'[i].domain = d
  BY <1>1, <1>2, <1>3 DEF Again
<1>4. CASE client'[c] = client[c] /\ client[c].pc = "listing"
  <2>1. client[c].job <= Len(jobs)
    BY <1>4 DEF ListInv, ListOK
  <2>2. ASSUME NEW d \in client[c].hidden, d \notin deleted'
        PROVE  \E i \in DOMAIN jobs' : i > client[c].job /\ jobs'[i].domain = d
    <3>1. d \in deleted \/ Again(d, client[c].job)
      BY <1>4, <2>2 DEF ListInv, ListOK
    <3>2. CASE d \in deleted
      BY <3>2, <2>1, <2>2, <1>1
    <3> QED
      BY <3>1, <3>2, <1>3
  <2> QED
    BY <1>4, <1>1, <2>1, <2>2 DEF ListOK, Again
<1>5. CASE client'[c] = client[c] /\ client[c].pc = "replying"
  <2>1. client[c].job <= Len(jobs) /\ client[c].listed \in SUBSET (1..client[c].job)
    BY <1>5 DEF ListInv, ListOK
  <2>2. ASSUME NEW j \in client[c].listed, jobs'[j].domain \in client[c].hidden
        PROVE  \E i \in DOMAIN jobs' : i > client[c].job /\ jobs'[i].domain = jobs'[j].domain
    <3>1. j \in DOMAIN jobs /\ jobs'[j].domain = jobs[j].domain
      BY <2>1, <2>2, <1>1, <1>2
    <3>2. Again(jobs[j].domain, client[c].job)
      BY <1>5, <2>2, <3>1 DEF ListInv, ListOK
    <3> QED
      BY <3>1, <3>2, <1>3
  <2> QED
    BY <1>5, <1>1, <2>1, <2>2 DEF ListOK, Again
<1> QED
  BY <1>4, <1>5 DEF ListOK

\* No step breaks what lists rely on.
LEMMA ListStep == ReviewInv /\ ListInv /\ [ReviewNext]_vars => ListInv'
<1> SUFFICES ASSUME ReviewInv, ListInv, [ReviewNext]_vars
             PROVE  ListInv'
  OBVIOUS
<1>1. /\ jobs \in Seq(Job) /\ client \in [Clients -> LooseClient] /\ Len(jobs) \in Nat
      /\ DOMAIN jobs = 1..Len(jobs)
  BY DEF ReviewInv, Types
<1>2. CASE /\ UNCHANGED jobs /\ deleted \subseteq deleted'
           /\ \A c \in Clients : client'[c] = client[c] \/ client'[c].pc \notin {"listing", "replying"}
  <2>1. /\ Len(jobs) <= Len(jobs') /\ Len(jobs') \in Nat /\ DOMAIN jobs' = 1..Len(jobs')
        /\ \A j \in DOMAIN jobs : jobs'[j].domain = jobs[j].domain
        /\ deleted \ deleted' = {}
    BY <1>1, <1>2
  <2> QED
    BY <1>2, <2>1, ListsUndisturbed DEF ListInv
<1>3. ASSUME NEW j \in DOMAIN jobs, JobMoves(j)
      PROVE  ListInv'
  <2>1. PICK s \in Status : jobs' = [jobs EXCEPT ![j].status = s]
    BY <1>3 DEF JobMoves
  <2>2. jobs[j] \in Job /\ [jobs[j] EXCEPT !.status = s] \in Job
    <3>1. jobs[j] \in Job
      BY <1>1
    <3> QED
      BY <2>1, <3>1 DEF Job
  <2> DEFINE moved == [jobs[j] EXCEPT !.status = s]
  <2>3. /\ jobs' = [jobs EXCEPT ![j] = moved]
        /\ jobs' \in Seq(Job) /\ Len(jobs') = Len(jobs) /\ DOMAIN jobs' = DOMAIN jobs
    BY <1>1, <2>1, <2>2, ExceptSeq
  <2>4. moved.domain = jobs[j].domain
    BY <2>2 DEF Job
  <2>6. \A i \in DOMAIN jobs : jobs'[i].domain = jobs[i].domain
    BY <1>1, <2>3, <2>4
  <2>5. client' = client /\ deleted' = deleted
    BY <1>3 DEF JobMoves
  <2> QED
    BY <1>1, <2>3, <2>5, <2>6, ListsUndisturbed DEF ListInv
<1>4. ASSUME NEW c \in Clients, IngestWrite(c)
      PROVE  ListInv'
  <2> DEFINE d == client[c].domain
  <2>1. client[c] \in LooseClient /\ d \in Domains
    BY <1>1 DEF LooseClient
  <2>2. \A b \in Clients : client'[b] = client[b] \/ client'[b].pc \notin {"listing", "replying"}
    BY <1>1, <1>4, NewClientType DEF IngestWrite, Done
  <2>3. CASE UNCHANGED <<jobs, archive, deleted>>
    BY <1>2, <2>2, <2>3
  <2>4. CASE jobs' = Append(jobs, NewJob(d)) /\ deleted' = deleted \ {d}
    <3>1. NewJob(d) \in Job /\ NewJob(d).domain = d
      BY <2>1, ReviewAssumption DEF NewJob, Job
    <3>2. /\ Len(jobs') = Len(jobs) + 1 /\ DOMAIN jobs' = 1..Len(jobs')
          /\ jobs'[Len(jobs) + 1].domain = d
          /\ \A j \in DOMAIN jobs : jobs'[j].domain = jobs[j].domain
      BY <1>1, <2>4, <3>1
    <3>3. \A e \in deleted \ deleted' : \E i \in DOMAIN jobs' : i > Len(jobs) /\ jobs'[i].domain = e
      <4>1. deleted \ deleted' \in SUBSET {d} /\ Len(jobs) + 1 \in DOMAIN jobs'
        BY <1>1, <2>4, <3>2
      <4> QED
        BY <1>1, <3>2, <4>1
    <3> QED
      BY <1>1, <2>2, <3>2, <3>3, ListsUndisturbed DEF ListInv
  <2> QED
    BY <1>4, <2>3, <2>4 DEF IngestWrite
<1>5. ASSUME NEW c \in Clients, ListRead(c)
      PROVE  ListInv'
  <2>1. /\ client' = [client EXCEPT ![c] = [NewClient EXCEPT !.pc = "listing", !.job = Len(jobs),
                                                             !.hidden = deleted]]
        /\ jobs' = jobs /\ deleted' = deleted
    BY <1>5 DEF ListRead
  <2>2. client'[c].pc = "listing" /\ client'[c].job = Len(jobs) /\ client'[c].hidden = deleted
    BY <1>1, <2>1, NewClientType DEF NewClient
  <2>3. \A b \in Clients \ {c} : client'[b] = client[b]
    BY <1>1, <2>1
  <2> QED
    BY <1>1, <2>1, <2>2, <2>3 DEF ListInv, ListOK, Again
<1>6. ASSUME NEW c \in Clients, ListReadArchive(c)
      PROVE  ListInv'
  <2> DEFINE n == client[c].job
  <2>1. /\ client' = [client EXCEPT ![c].pc = "replying", ![c].listed = Listed(n)]
        /\ jobs' = jobs /\ deleted' = deleted /\ client[c].pc = "listing"
    BY <1>6 DEF ListReadArchive
  <2>2. client[c] \in LooseClient
    BY <1>1
  <2>3. /\ client'[c].pc = "replying" /\ client'[c].job = n /\ client'[c].listed = Listed(n)
        /\ client'[c].hidden = client[c].hidden
    BY <1>1, <2>1, <2>2 DEF LooseClient
  <2>4. \A b \in Clients \ {c} : client'[b] = client[b]
    BY <1>1, <2>1
  <2>5. n \in Nat /\ n <= Len(jobs) /\ Listed(n) \in SUBSET (1..n)
    BY <2>1, <2>2 DEF ListInv, ListOK, Listed, LooseClient
  <2>6. ASSUME NEW j \in Listed(n), jobs[j].domain \in client[c].hidden
        PROVE  Again(jobs[j].domain, n)
    <3>1. jobs[j].domain \in deleted \/ Again(jobs[j].domain, n)
      BY <2>1, <2>6 DEF ListInv, ListOK
    <3>2. ~Archived(jobs[j].domain)
      BY <2>6 DEF Listed
    <3> QED
      BY <3>1, <3>2 DEF ReviewInv, ConfirmedDeletionHides
  <2> QED
    BY <1>1, <2>1, <2>3, <2>4, <2>5, <2>6 DEF ListInv, ListOK, Again
<1>7. ASSUME NEW c \in Clients, Done(c), UNCHANGED jobs, deleted \subseteq deleted'
      PROVE  ListInv'
  BY <1>1, <1>2, <1>7, NewClientType DEF Done
<1>8. ASSUME NEW c \in Clients, DeleteCheckLatest(c)
      PROVE  ListInv'
  <2>1. CASE client' = [client EXCEPT ![c].pc = "archive"]
    BY <1>1, <1>2, <1>8, <2>1 DEF DeleteCheckLatest, LooseClient
  <2> QED
    BY <1>7, <1>8, <2>1 DEF DeleteCheckLatest
<1>9. ASSUME NEW c \in Clients, NEW j \in DOMAIN jobs, DeleteRead(c, j)
      PROVE  ListInv'
  BY <1>1, <1>2, <1>9, NewClientType DEF DeleteRead, NewClient
<1>10. ASSUME NEW c \in Clients, DeleteReadArchive(c)
       PROVE  ListInv'
  BY <1>1, <1>2, <1>10 DEF DeleteReadArchive, LooseClient
<1>11. ASSUME NEW c \in Clients, DeleteWrite(c)
       PROVE  ListInv'
  BY <1>7, <1>11 DEF DeleteWrite
<1>12. ASSUME NEW c \in Clients, NEW d \in Domains, IngestRead(c, d)
       PROVE  ListInv'
  BY <1>1, <1>2, <1>12, NewClientType DEF IngestRead, NewClient
<1>13. ASSUME NEW c \in Clients, ListReply(c)
       PROVE  ListInv'
  BY <1>7, <1>13 DEF ListReply
<1>14. CASE UNCHANGED vars
  BY <1>2, <1>14 DEF vars
<1> QED
  BY <1>3, <1>4, <1>5, <1>6, <1>8, <1>9, <1>10, <1>11, <1>12, <1>13, <1>14 DEF ReviewNext

\* A list that is asked for after a deletion was confirmed does not show the domain
\* unless it has been ingested again, for any number of domains and requests.
THEOREM ListsHideDeleted == ReviewSpec => []ListingHidesDeleted
<1>1. ReviewInit => ReviewInv /\ ListInv
  <2> SUFFICES ASSUME ReviewInit
               PROVE  ReviewInv /\ ListInv
    OBVIOUS
  <2>1. Types
    BY NewClientType DEF ReviewInit, Types
  <2>2. HasJob /\ ConfirmedDeletionHides /\ ListInv
    BY NewClientType DEF ReviewInit, HasJob, ConfirmedDeletionHides, ListInv, ListOK
  <2> QED
    BY <2>1, <2>2 DEF ReviewInv
<1>2. (ReviewInv /\ ListInv) /\ [ReviewNext]_vars => (ReviewInv /\ ListInv)'
  BY TypesStep, HidesStep, ListStep DEF ReviewInv
<1>3. ReviewInv /\ ListInv => ListingHidesDeleted
  BY DEF ListInv, ListOK, ListingHidesDeleted, Again
<1> QED
  BY <1>1, <1>2, <1>3, PTL DEF ReviewSpec

-----------------------------------------------------------------------------
(* The numbers of jobs stay within the bound on jobs. *)

BoundedClient(c) == client[c].job <= MaxJobs /\ client[c].listed \subseteq 1..MaxJobs

Bounded ==
  /\ Len(jobs) <= MaxJobs
  /\ \A d \in Domains : archive[d] <= MaxJobs
  /\ \A c \in Clients : BoundedClient(c)

\* What requests read and write are numbers of jobs there are.
LEMMA BoundedStep == ReviewInv /\ Bounded /\ [ReviewNext]_vars => Bounded'
<1> SUFFICES ASSUME ReviewInv, Bounded, [ReviewNext]_vars PROVE Bounded'
  OBVIOUS
<1> USE DEF ReviewInv, Types, Bounded, BoundedClient
<1>0. /\ Len(jobs) \in Nat /\ DOMAIN jobs = 1..Len(jobs) /\ MaxJobs \in Nat
      /\ NewClient.job = 0 /\ NewClient.listed = {}
  BY ReviewAssumption DEF NewClient
<1>1. CASE \E j \in DOMAIN jobs : JobMoves(j)
  <2>1. Len(jobs') = Len(jobs) /\ UNCHANGED <<archive, client>>
    BY <1>1 DEF JobMoves
  <2> QED
    BY <2>1
<1>2. ASSUME NEW c \in Clients, NEW new \in LooseClient, client' = [client EXCEPT ![c] = new],
             new.job <= MaxJobs, new.listed \subseteq 1..MaxJobs
      PROVE  \A b \in Clients : BoundedClient(b)'
  BY <1>2
<1>3. ASSUME NEW c \in Clients, Done(c) PROVE \A b \in Clients : BoundedClient(b)'
  BY <1>0, <1>2, <1>3, NewClientType DEF Done
<1>4. ASSUME NEW c \in Clients, NEW j \in DOMAIN jobs, DeleteRead(c, j) PROVE Bounded'
  <2>1. j <= MaxJobs /\ jobs' = jobs /\ archive' = archive
    BY <1>0, <1>4 DEF DeleteRead
  <2>2. client'[c].job = j /\ client'[c].listed = {} /\ \A b \in Clients \ {c} : client'[b] = client[b]
    BY <1>4 DEF DeleteRead, NewClient
  <2> QED
    BY <2>1, <2>2
<1>5. ASSUME NEW c \in Clients, DeleteCheckLatest(c) \/ DeleteReadArchive(c) \/ ListReply(c)
      PROVE  Bounded'
  <2>1. jobs' = jobs /\ archive' = archive
    BY <1>5 DEF DeleteCheckLatest, DeleteReadArchive, ListReply
  <2>2. \/ Done(c)
        \/ /\ client'[c].job = client[c].job /\ client'[c].listed = client[c].listed
           /\ \A b \in Clients \ {c} : client'[b] = client[b]
    BY <1>5 DEF DeleteCheckLatest, DeleteReadArchive, ListReply, LooseClient
  <2> QED
    BY <1>3, <2>1, <2>2
<1>6. ASSUME NEW c \in Clients, DeleteWrite(c) PROVE Bounded'
  <2>1. jobs' = jobs /\ (archive' = ArchiveRow(c) \/ archive' = archive)
    BY <1>6 DEF DeleteWrite
  <2>2. \A d \in Domains : archive'[d] <= MaxJobs
    BY <2>1 DEF ArchiveRow
  <2> QED
    BY <1>3, <1>6, <2>1, <2>2 DEF DeleteWrite
<1>7. ASSUME NEW c \in Clients, NEW d \in Domains, IngestRead(c, d) PROVE Bounded'
  <2>1. jobs' = jobs /\ archive' = archive
    BY <1>7 DEF IngestRead
  <2>2. client'[c].job = 0 /\ client'[c].listed = {} /\ \A b \in Clients \ {c} : client'[b] = client[b]
    BY <1>7 DEF IngestRead, NewClient
  <2> QED
    BY <1>0, <2>1, <2>2
<1>8. ASSUME NEW c \in Clients, IngestWrite(c) PROVE Bounded'
  <2>1. \A d \in Domains : archive'[d] <= MaxJobs
    BY <1>0, <1>8 DEF IngestWrite, Unarchive
  <2>2. Len(jobs') <= MaxJobs
    BY <1>0, <1>8 DEF IngestWrite
  <2> QED
    BY <1>3, <1>8, <2>1, <2>2 DEF IngestWrite
<1>9. ASSUME NEW c \in Clients, ListRead(c) PROVE Bounded'
  <2>1. jobs' = jobs /\ archive' = archive
    BY <1>9 DEF ListRead
  <2>2. /\ client'[c].job = Len(jobs) /\ client'[c].listed = {}
        /\ \A b \in Clients \ {c} : client'[b] = client[b]
    BY <1>9 DEF ListRead, NewClient
  <2> QED
    BY <1>0, <2>1, <2>2
<1>10. ASSUME NEW c \in Clients, ListReadArchive(c) PROVE Bounded'
  <2>1. jobs' = jobs /\ archive' = archive
    BY <1>10 DEF ListReadArchive
  <2>2. /\ client'[c].job = client[c].job /\ client'[c].listed = Listed(client[c].job)
        /\ \A b \in Clients \ {c} : client'[b] = client[b]
    BY <1>10 DEF ListReadArchive, LooseClient
  <2>3. Listed(client[c].job) \subseteq 1..MaxJobs
    BY <1>0 DEF Listed, LooseClient
  <2> QED
    BY <2>1, <2>2, <2>3
<1>11. CASE UNCHANGED vars
  BY <1>11 DEF vars
<1> QED
  BY <1>1, <1>4, <1>5, <1>6, <1>7, <1>8, <1>9, <1>10, <1>11 DEF ReviewNext

\* Jobs, archive and requests keep their shape, and a request never speaks of a job
\* beyond those there may be.
THEOREM ReviewTypes == ReviewSpec => []ReviewTypeOK
<1>1. ReviewInit => ReviewInv /\ Bounded
  <2> SUFFICES ASSUME ReviewInit PROVE ReviewInv /\ Bounded
    OBVIOUS
  <2>1. Types
    BY NewClientType DEF ReviewInit, Types
  <2>2. HasJob /\ ConfirmedDeletionHides
    BY NewClientType DEF ReviewInit, HasJob, ConfirmedDeletionHides
  <2>3. Bounded
    BY ReviewAssumption DEF ReviewInit, Bounded, BoundedClient, NewClient
  <2> QED
    BY <2>1, <2>2, <2>3 DEF ReviewInv
<1>2. (ReviewInv /\ Bounded) /\ [ReviewNext]_vars => (ReviewInv /\ Bounded)'
  BY TypesStep, HidesStep, BoundedStep DEF ReviewInv
<1>3. ReviewInv /\ Bounded => ReviewTypeOK
  <2> SUFFICES ASSUME ReviewInv, Bounded PROVE ReviewTypeOK
    OBVIOUS
  <2> USE DEF ReviewInv, Types, Bounded
  <2>1. Len(jobs) \in 0..MaxJobs /\ jobs \in [1..Len(jobs) -> Job]
    <3>1. Len(jobs) \in Nat /\ DOMAIN jobs = 1..Len(jobs) /\ \A j \in 1..Len(jobs) : jobs[j] \in Job
      BY ElementOfSeq
    <3>2. jobs = [j \in 1..Len(jobs) |-> jobs[j]]
      BY <3>1, LenProperties
    <3> QED
      BY <3>1, <3>2, ReviewAssumption
  <2>2. archive \in [Domains -> 0..MaxJobs]
    BY ReviewAssumption
  <2>3. \A c \in Clients : client[c] \in Client
    BY ReviewAssumption DEF LooseClient, Client, BoundedClient
  <2>4. client \in [Clients -> Client]
    BY <2>3
  <2> QED
    BY <2>1, <2>2, <2>4 DEF ReviewTypeOK
<1> QED
  BY <1>1, <1>2, <1>3, PTL DEF ReviewSpec

-----------------------------------------------------------------------------
(* The pages of a list. *)

UpTo(listed, j, asc) == {i \in listed : i = j \/ Before(i, j, asc)}
Rank(listed, j, asc) == Cardinality(UpTo(listed, j, asc))

\* A job's rank is its place in the sorted list.
LEMMA Ranks ==
  ASSUME NEW listed \in SUBSET (1..MaxJobs), NEW asc \in BOOLEAN
  PROVE  /\ IsFiniteSet(listed) /\ Cardinality(listed) \in Nat /\ Cardinality(listed) <= MaxJobs
         /\ \A j \in listed : Rank(listed, j, asc) \in 1..Cardinality(listed)
         /\ \A i, j \in listed : Before(i, j, asc) => Rank(listed, i, asc) < Rank(listed, j, asc)
<1>1. IsFiniteSet(1..MaxJobs) /\ Cardinality(1..MaxJobs) = MaxJobs
  BY ReviewAssumption, FS_Interval
<1>2. IsFiniteSet(listed) /\ Cardinality(listed) \in Nat /\ Cardinality(listed) <= MaxJobs
  BY <1>1, FS_Subset, FS_CardinalityType
<1>3. ASSUME NEW j \in listed
      PROVE  /\ UpTo(listed, j, asc) \in SUBSET listed /\ IsFiniteSet(UpTo(listed, j, asc))
             /\ Rank(listed, j, asc) \in 1..Cardinality(listed)
  <2>1. UpTo(listed, j, asc) \in SUBSET listed /\ j \in UpTo(listed, j, asc)
    BY DEF UpTo
  <2>2. /\ IsFiniteSet(UpTo(listed, j, asc)) /\ Rank(listed, j, asc) \in Nat
        /\ Rank(listed, j, asc) <= Cardinality(listed)
    BY <1>2, <2>1, FS_Subset, FS_CardinalityType DEF Rank
  <2>3. Rank(listed, j, asc) # 0
    BY <2>1, <2>2, FS_EmptySet DEF Rank
  <2> QED
    BY <1>2, <2>1, <2>2, <2>3
<1>4. ASSUME NEW i \in listed, NEW j \in listed, Before(i, j, asc)
      PROVE  Rank(listed, i, asc) < Rank(listed, j, asc)
  <2>1. i \in Int /\ j \in Int
    OBVIOUS
  <2>2. \A k \in listed : k \in Int
    OBVIOUS
  <2>3. UpTo(listed, i, asc) \in SUBSET UpTo(listed, j, asc)
    <3>1. \A k \in listed : k = i \/ Before(k, i, asc) => Before(k, j, asc)
      BY <1>4, <2>1, <2>2 DEF Before
    <3> QED
      BY <3>1 DEF UpTo
  <2>4. j \in UpTo(listed, j, asc) /\ j \notin UpTo(listed, i, asc)
    BY <1>4, <2>1 DEF UpTo, Before
  <2>5. /\ Cardinality(UpTo(listed, i, asc)) <= Cardinality(UpTo(listed, j, asc))
        /\ Cardinality(UpTo(listed, i, asc)) # Cardinality(UpTo(listed, j, asc))
    BY <1>3, <2>3, <2>4, FS_Subset
  <2>6. Rank(listed, i, asc) \in Nat /\ Rank(listed, j, asc) \in Nat
    BY <1>2, <1>3
  <2> QED
    BY <2>5, <2>6 DEF Rank
<1> QED
  BY <1>2, <1>3, <1>4

\* A list of jobs can be sorted, either way, into one that has each of them once.
LEMMA SortedList ==
  ASSUME NEW listed \in SUBSET (1..MaxJobs), NEW asc \in BOOLEAN
  PROVE  /\ Sorted(listed, asc) \in [1..Cardinality(listed) -> listed]
         /\ \A i, k \in 1..Cardinality(listed) :
              i < k => Before(Sorted(listed, asc)[i], Sorted(listed, asc)[k], asc)
<1> DEFINE n == Cardinality(listed)
           rank == [j \in listed |-> Rank(listed, j, asc)]
           list == [r \in 1..n |-> CHOOSE j \in listed : rank[j] = r]
<1>1. n \in Nat /\ IsFiniteSet(listed) /\ rank \in [listed -> 1..n]
  BY Ranks
<1>2. \A i, j \in listed : i = j \/ Before(i, j, asc) \/ Before(j, i, asc)
  BY DEF Before
<1>3. \A i, j \in listed : Before(i, j, asc) => rank[i] < rank[j]
  BY Ranks
<1>4. \A i, j \in listed : rank[i] = rank[j] => i = j
  <2>1. \A i \in listed : rank[i] \in Int
    BY <1>1
  <2> HIDE DEF rank
  <2> QED
    BY <1>2, <1>3, <2>1
<1> HIDE DEF n, rank
<1>5. \A r \in 1..n : \E j \in listed : rank[j] = r
  <2>1. IsFiniteSet(1..n) /\ Cardinality(1..n) = n /\ Cardinality(listed) = n
    <3>1. Cardinality(listed) = n
      BY DEF n
    <3> QED
      BY <1>1, <3>1, FS_Interval
  <2>2. rank \in Injection(listed, 1..n)
    BY <1>1, <1>4 DEF Injection, IsInjective
  <2>3. rank \in Surjection(listed, 1..n)
    BY <2>1, <2>2, FS_Injection
  <2> QED
    BY <2>3 DEF Surjection
<1>6. \A r \in 1..n : list[r] \in listed /\ rank[list[r]] = r
  BY <1>5
<1>7. list \in [1..n -> listed]
  BY <1>6
<1> HIDE DEF list
<1>8. \A i, k \in 1..n : i < k => Before(list[i], list[k], asc)
  <2> SUFFICES ASSUME NEW i \in 1..n, NEW k \in 1..n, i < k PROVE Before(list[i], list[k], asc)
    OBVIOUS
  <2>1. ~Before(list[k], list[i], asc)
    <3>1. Before(list[k], list[i], asc) => k < i
      BY <1>3, <1>6
    <3> QED
      BY <1>1, <3>1
  <2>2. list[i] # list[k]
    BY <1>6
  <2> QED
    BY <1>2, <1>6, <2>1, <2>2
<1>9. DOMAIN list = 1..n
  BY <1>7
<1>10. \E sorted \in [1..Cardinality(listed) -> listed] :
         \A i, k \in DOMAIN sorted : i < k => Before(sorted[i], sorted[k], asc)
  BY <1>7, <1>8, <1>9 DEF n
<1> DEFINE sorted == Sorted(listed, asc)
<1>11. /\ sorted \in [1..Cardinality(listed) -> listed]
       /\ \A i, k \in DOMAIN sorted : i < k => Before(sorted[i], sorted[k], asc)
  BY <1>10 DEF Sorted
<1> QED
  BY <1>11

LEMMA Multiples ==
  ASSUME NEW a \in Nat, NEW b \in Nat, a <= b, NEW p \in Nat
  PROVE  a * p <= b * p
<1>1. PICK c \in Nat : b = a + c
  BY b - a \in Nat
<1>2. b * p = a * p + c * p /\ c * p \in Nat /\ a * p \in Nat
  BY <1>1
<1> QED
  BY <1>2

\* The pages have place for a list of n, and the pages but the last have not.
LEMMA PageCount ==
  ASSUME NEW n \in Nat, NEW p \in Nat \ {0}
  PROVE  LET pages == TotalPages(n, p)
         IN /\ pages \in Nat /\ pages <= n /\ n <= pages * p
            /\ n > 0 => pages > 0 /\ (pages - 1) * p < n
<1>1. CASE n = 0
  BY <1>1 DEF TotalPages
<1>2. CASE n # 0
  <2> DEFINE q == (n + p - 1) \div p
             m == (n + p - 1) % p
  <2>1. q \in Nat /\ m \in 0..(p - 1) /\ n + p - 1 = q * p + m
    BY <1>2
  <2>2. TotalPages(n, p) = q
    BY <1>2 DEF TotalPages
  <2> HIDE DEF q, m
  <2>3. q * p \in Nat /\ n <= q * p /\ q * p <= n + p - 1
    BY <2>1
  <2>4. q # 0
    BY <1>2, <2>3
  <2>5. (q - 1) * p = q * p - p
    BY <2>1
  <2>6. q <= n
    <3>1. SUFFICES ASSUME n + 1 <= q PROVE FALSE
      BY <2>1
    <3>2. (n + 1) * p <= q * p
      BY <2>1, <3>1, Multiples
    <3>3. n * p >= n /\ n * p \in Nat
      <4>1. PICK k \in Nat : p = k + 1
        BY p - 1 \in Nat
      <4>2. n * p = n * k + n /\ n * k \in Nat
        BY <4>1
      <4> QED
        BY <4>2
    <3>4. (n + 1) * p = n * p + p
      OBVIOUS
    <3> QED
      BY <2>3, <3>2, <3>3, <3>4
  <2> QED
    BY <1>2, <2>1, <2>2, <2>3, <2>4, <2>5, <2>6
<1> QED
  BY <1>1, <1>2

\* The page where the walk ends.
LastPage(list, per_page) ==
  CHOOSE n \in 1..(MaxJobs + 1) :
    (\A page \in 1..(n - 1) : HasNext(list, page, per_page)) /\ ~HasNext(list, n, per_page)

LEMMA WalkEnds ==
  ASSUME NEW list \in Seq(Nat), Len(list) <= MaxJobs, NEW p \in 1..MaxJobs
  PROVE  LET pages == TotalPages(Len(list), p)
         IN LastPage(list, p) = IF pages = 0 THEN 1 ELSE pages
<1> DEFINE pages == TotalPages(Len(list), p)
           end == IF pages = 0 THEN 1 ELSE pages
           Ends(n) == (\A page \in 1..(n - 1) : HasNext(list, page, p)) /\ ~HasNext(list, n, p)
<1>1. pages \in Nat /\ pages <= MaxJobs /\ MaxJobs \in Nat
  <2>1. Len(list) \in Nat /\ p \in Nat \ {0} /\ MaxJobs \in Nat
    BY ReviewAssumption
  <2>2. pages \in Nat /\ pages <= Len(list)
    BY <2>1, PageCount
  <2> HIDE DEF pages
  <2> QED
    BY <2>1, <2>2
<1>2. \A n \in Nat : HasNext(list, n, p) <=> n < pages
  BY DEF HasNext
<1> HIDE DEF pages
<1>3. end \in 1..(MaxJobs + 1) /\ Ends(end)
  BY <1>1, <1>2
<1>4. ASSUME NEW n \in 1..(MaxJobs + 1), Ends(n) PROVE n = end
  <2>1. ~(n < pages)
    BY <1>1, <1>2, <1>4
  <2>2. ~(end < n)
    <3>1. SUFFICES ASSUME end < n PROVE FALSE
      OBVIOUS
    <3>2. end \in 1..(n - 1) /\ end \in Nat
      BY <1>1, <1>3, <3>1
    <3> QED
      BY <1>2, <1>3, <1>4, <3>2
  <2> QED
    BY <1>1, <1>3, <2>1, <2>2
<1>5. LastPage(list, p) = CHOOSE n \in 1..(MaxJobs + 1) : Ends(n)
  BY DEF LastPage
<1> HIDE DEF end, Ends
<1>6. LastPage(list, p) = end
  BY <1>3, <1>4, <1>5
<1> QED
  BY <1>6 DEF pages, end

LEMMA PageIsSlice ==
  ASSUME NEW list \in Seq(Nat), NEW p \in Nat \ {0}, NEW page \in Nat \ {0}
  PROVE  LET from == (page - 1) * p
             rest == Len(list) - from
             size == IF rest < 0 THEN 0 ELSE IF rest < p THEN rest ELSE p
         IN /\ Len(PageOf(list, page, p)) = size
            /\ \A k \in 1..size : PageOf(list, page, p)[k] = list[from + k]
<1> DEFINE from == (page - 1) * p
           rest == Len(list) - from
           size == IF rest < 0 THEN 0 ELSE IF rest < p THEN rest ELSE p
           next == page * p
           to == IF next < Len(list) THEN next ELSE Len(list)
<1>1. from \in Nat /\ next = from + p /\ Len(list) \in Nat
  <2>1. page - 1 \in Nat /\ page = (page - 1) + 1
    OBVIOUS
  <2> QED
    BY <2>1
<1>2. PageOf(list, page, p) = SubSeq(list, from + 1, to)
  BY DEF PageOf
<1> HIDE DEF from, next
<1>3. to \in Nat /\ to <= Len(list) /\ from + 1 \in Nat \ {0}
  BY <1>1
<1>4. size = IF from + 1 <= to THEN to - (from + 1) + 1 ELSE 0
  BY <1>1
<1> HIDE DEF to, size
<1>5. /\ Len(SubSeq(list, from + 1, to)) = IF from + 1 <= to THEN to - (from + 1) + 1 ELSE 0
      /\ \A i \in 1..to - (from + 1) + 1 : SubSeq(list, from + 1, to)[i] = list[from + 1 + i - 1]
  <2>1. \A i \in from + 1..to : list[i] \in Nat
    BY <1>1, <1>3, ElementOfSeq
  <2> QED
    BY <1>3, <2>1, SubSeqProperties
<1>6. \A k \in 1..size : k \in 1..to - (from + 1) + 1 /\ from + 1 + k - 1 = from + k
  BY <1>1, <1>3, <1>4
<1>7. Len(PageOf(list, page, p)) = size
  BY <1>2, <1>4, <1>5
<1>8. \A k \in 1..size : PageOf(list, page, p)[k] = list[from + k]
  BY <1>2, <1>5, <1>6
<1> QED
  BY <1>7, <1>8 DEF from, size

\* Item i of a list is on page (i - 1) div p + 1.
LEMMA PlaceOf ==
  ASSUME NEW i \in Nat \ {0}, NEW p \in Nat \ {0}
  PROVE  LET page == ((i - 1) \div p) + 1
             k == ((i - 1) % p) + 1
         IN page \in Nat \ {0} /\ k \in 1..p /\ (page - 1) * p + k = i
<1> DEFINE q == (i - 1) \div p
           m == (i - 1) % p
<1>1. q \in Nat /\ m \in 0..(p - 1) /\ i - 1 = q * p + m
  OBVIOUS
<1> HIDE DEF q, m
<1>2. q + 1 \in Nat \ {0} /\ m + 1 \in 1..p /\ (q + 1) - 1 = q
  BY <1>1
<1>3. q * p \in Nat /\ q * p + (m + 1) = i
  BY <1>1
<1> QED
  BY <1>2, <1>3 DEF q, m

\* Walking from the first page to the last shows the list: the pages before the last
\* are full, the last has the rest, and each item is where its place says.
LEMMA PagesShow ==
  ASSUME NEW list \in Seq(Nat), Len(list) <= MaxJobs, NEW p \in 1..MaxJobs
  PROVE  LET last == LastPage(list, p)
         IN /\ \A page \in 1..last :
                 /\ Len(PageOf(list, page, p)) = IF page < last THEN p ELSE Len(list) - (last - 1) * p
                 /\ HasPrevious(list, page, p) <=> page > 1
            /\ \A i \in DOMAIN list :
                 list[i] = PageOf(list, ((i - 1) \div p) + 1, p)[((i - 1) % p) + 1]
<1> DEFINE pages == TotalPages(Len(list), p)
           last == LastPage(list, p)
<1>1. MaxJobs \in Nat /\ p \in Nat \ {0} /\ Len(list) \in Nat
  BY ReviewAssumption
<1>2. /\ pages \in Nat /\ Len(list) <= pages * p
      /\ Len(list) > 0 => pages > 0 /\ (pages - 1) * p < Len(list)
      /\ Len(list) = 0 => pages = 0
  <2>1. /\ pages \in Nat /\ pages <= Len(list) /\ Len(list) <= pages * p
        /\ Len(list) > 0 => pages > 0 /\ (pages - 1) * p < Len(list)
    BY <1>1, PageCount
  <2> HIDE DEF pages
  <2> QED
    BY <1>1, <2>1
<1>3. last = IF pages = 0 THEN 1 ELSE pages
  BY WalkEnds
<1>4. \A page \in Nat : HasPrevious(list, page, p) <=> page > 1 /\ pages > 0
  BY DEF HasPrevious
<1> HIDE DEF pages, last
<1>5. ASSUME NEW page \in 1..last
      PROVE  Len(PageOf(list, page, p)) = IF page < last THEN p ELSE Len(list) - (last - 1) * p
  <2> DEFINE from == (page - 1) * p
             rest == Len(list) - from
  <2>1. page \in Nat \ {0} /\ page <= last /\ last \in Nat
    BY <1>2, <1>3
  <2>2. Len(PageOf(list, page, p)) = IF rest < 0 THEN 0 ELSE IF rest < p THEN rest ELSE p
    BY <1>1, <2>1, PageIsSlice
  <2>3. CASE Len(list) = 0
    <3>1. page = 1 /\ last = 1
      BY <1>2, <1>3, <2>1, <2>3
    <3>2. from = 0 /\ (last - 1) * p = 0
      BY <1>1, <3>1
    <3> HIDE DEF from
    <3> QED
      BY <1>1, <2>2, <2>3, <3>1, <3>2
  <2>4. CASE Len(list) > 0 /\ page < last
    <3>1. last = pages /\ page <= pages - 1 /\ pages - 1 \in Nat
      BY <1>2, <1>3, <2>1, <2>4
    <3>2. page * p <= (pages - 1) * p
      BY <1>1, <2>1, <3>1, Multiples
    <3>3. page * p = from + p /\ from \in Nat /\ (pages - 1) * p \in Nat
      <4>1. page - 1 \in Nat /\ page = (page - 1) + 1
        BY <2>1
      <4> QED
        BY <1>1, <3>1, <4>1
    <3>4. rest > p
      <4> HIDE DEF from
      <4> QED
        BY <1>1, <1>2, <2>4, <3>2, <3>3, SMTT(30)
    <3> HIDE DEF rest
    <3>5. rest \in Int
      BY <1>1, <3>3 DEF rest
    <3> QED
      BY <1>1, <2>2, <2>4, <3>4, <3>5
  <2>5. CASE Len(list) > 0 /\ page = last
    <3>1. last = pages /\ pages - 1 \in Nat /\ pages = (pages - 1) + 1
      BY <1>2, <1>3, <2>5
    <3>2. from = (last - 1) * p /\ from < Len(list)
      BY <1>2, <2>5, <3>1
    <3>3. pages * p = from + p /\ from \in Nat
      BY <1>1, <2>5, <3>1
    <3>4. rest <= p /\ ~(rest < 0) /\ rest \in Int
      <4> HIDE DEF from
      <4> QED
        BY <1>1, <1>2, <3>2, <3>3
    <3>5. rest = Len(list) - (last - 1) * p
      BY <3>2
    <3> HIDE DEF rest
    <3> QED
      BY <1>1, <2>1, <2>2, <2>5, <3>4, <3>5
  <2> QED
    BY <1>1, <2>1, <2>3, <2>4, <2>5
<1>6. ASSUME NEW page \in 1..last PROVE HasPrevious(list, page, p) <=> page > 1
  BY <1>2, <1>3, <1>4
<1>7. ASSUME NEW i \in DOMAIN list
      PROVE  list[i] = PageOf(list, ((i - 1) \div p) + 1, p)[((i - 1) % p) + 1]
  <2> DEFINE page == ((i - 1) \div p) + 1
             k == ((i - 1) % p) + 1
             from == (page - 1) * p
             rest == Len(list) - from
             size == IF rest < 0 THEN 0 ELSE IF rest < p THEN rest ELSE p
  <2>1. i \in Nat \ {0} /\ i <= Len(list)
    BY <1>1
  <2>2. page \in Nat \ {0} /\ k \in 1..p /\ from + k = i
    BY <1>1, <2>1, PlaceOf
  <2> HIDE DEF page, k
  <2>3. \A l \in 1..size : PageOf(list, page, p)[l] = list[from + l]
    BY <1>1, <2>2, PageIsSlice
  <2>4. from \in Nat
    BY <1>1, <2>2
  <2> HIDE DEF from
  <2>5. k \in 1..size
    BY <1>1, <2>1, <2>2, <2>4
  <2> QED
    BY <2>2, <2>3, <2>5 DEF page, k
<1> QED
  BY <1>5, <1>6, <1>7 DEF last

\* For any list, page size and direction: going from the first page to the next,
\* while there is one, shows the whole list.
THEOREM PagesWalked == ReviewSpec => []PagesShowList
<1>1. ReviewTypeOK => PagesShowList
  <2> SUFFICES ASSUME ReviewTypeOK, NEW c \in Clients, NEW per_page \in 1..MaxJobs, NEW asc \in BOOLEAN
               PROVE  LET list == Sorted(client[c].listed, asc)
                          last == LastPage(list, per_page)
                      IN /\ \A page \in 1..last :
                              /\ Len(PageOf(list, page, per_page)) =
                                   IF page < last THEN per_page ELSE Len(list) - (last - 1) * per_page
                              /\ HasPrevious(list, page, per_page) <=> page > 1
                         /\ \A i \in DOMAIN list :
                              list[i] = PageOf(list, ((i - 1) \div per_page) + 1, per_page)
                                          [((i - 1) % per_page) + 1]
    BY DEF PagesShowList, LastPage
  <2> DEFINE listed == client[c].listed
             list == Sorted(listed, asc)
  <2>1. listed \in SUBSET (1..MaxJobs)
    BY DEF ReviewTypeOK, Client
  <2> HIDE DEF listed
  <2>2. /\ list \in [1..Cardinality(listed) -> listed]
        /\ Cardinality(listed) \in Nat /\ Cardinality(listed) <= MaxJobs
    BY <2>1, SortedList, Ranks
  <2> HIDE DEF list
  <2>3. list \in Seq(Nat) /\ Len(list) = Cardinality(listed)
    <3>1. listed \subseteq Nat
      BY <2>1
    <3>2. PICK n \in Nat : n = Cardinality(listed) /\ list \in [1..n -> Nat]
      BY <2>2, <3>1
    <3> QED
      BY <3>2
  <2> QED
    BY <2>2, <2>3, PagesShow DEF list, listed
<1> QED
  BY <1>1, ReviewTypes, PTL
=============================================================================
