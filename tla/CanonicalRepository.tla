------------------------- MODULE CanonicalRepository -------------------------
(***************************************************************************)
(* canonical_repository/store.py and service.py behind the routes under     *)
(* /canonical-repository.                                                   *)
(*                                                                          *)
(* Documents are kept in three dictionaries that the threads of the pool    *)
(* share without a lock.  An access to one of them is atomic, and another   *)
(* thread may run between any two:                                          *)
(*                                                                          *)
(*   register  check the category -> _documents -> _versions -> index       *)
(*   publish   read the last hash -> read the last number -> append to      *)
(*             _versions -> replace the document                            *)
(*   latest    read the document -> search its versions                     *)
(*                                                                          *)
(* Hash of a version: SHA-256 of the previous hash and the content, taken   *)
(* to be free of collisions.  The model's hash is what went into it, the    *)
(* sequence of all contents hashed so far.  Nothing is persisted: a restart *)
(* is a new behaviour.                                                      *)
(***************************************************************************)
EXTENDS Integers, Sequences

CONSTANTS
  Workers,     \* threads of the pool
  Docs,        \* document ids
  Categories,  \* DocumentCategory
  Contents,    \* texts of versions
  NoDoc,       \* no document
  NoText,      \* no text: what a reader brings along
  NoJob,       \* an idle worker's job
  MaxPublications  \* bound: publications

ASSUME MaxPublicationsAssumption == MaxPublications \in Nat
ASSUME SentinelAssumption ==
  NoDoc \notin [category : Categories, current : Nat] \cup Docs

VARIABLES
  documents,  \* document id -> its category and current version, or NoDoc
  versions,   \* document id -> history of versions, empty before it has one
  index,      \* category -> document id or NoDoc
  phase,      \* worker -> how far its handler has come
  job,        \* worker -> what its handler holds in local variables
  answer,     \* the last answer given to a client
  publications,  \* publications begun
  acked,      \* history: document id -> versions clients were told of
  disturbed   \* history: documents with overlapping publications

storeVars == <<documents, versions, index>>
vars == <<storeVars, phase, job, answer, publications, acked, disturbed>>

-----------------------------------------------------------------------------

Document == [category : Categories, current : Nat]
DocumentVersion == [number : Nat \ {0}, content : Contents, hash : Seq(Contents)]
Job == [doc : Docs, category : Categories, content : Contents \cup {NoText},
        hash : Seq(Contents), number : Nat]

ContentHash(content, previous) == Append(previous, content)

Last(history) == history[Len(history)]

\* verify_chain() of a history of versions.
ChainIntact(history) ==
  \A i \in 1..Len(history) :
    history[i].hash =
      ContentHash(history[i].content, IF i = 1 THEN <<>> ELSE history[i - 1].hash)

\* get_version() finds a version of this number.
HasVersion(history, n) == \E i \in 1..Len(history) : history[i].number = n

PublishersOf(d) ==
  {w \in Workers : phase[w] \in {"hashed", "numbered", "appended"} /\ job[w].doc = d}

Init ==
  /\ documents = [d \in Docs |-> NoDoc]
  /\ versions = [d \in Docs |-> <<>>]
  /\ index = [c \in Categories |-> NoDoc]
  /\ phase = [w \in Workers |-> "idle"]
  /\ job = [w \in Workers |-> NoJob]
  /\ answer = "none"
  /\ publications = 0
  /\ acked = [d \in Docs |-> {}]
  /\ disturbed = {}

AnswerNow(w, status) ==
  /\ phase[w] = "idle"
  /\ answer' = status
  /\ UNCHANGED <<storeVars, phase, job, publications, acked, disturbed>>

\* The handler of w goes on to its next access.
Proceed(w, next) == phase' = [phase EXCEPT ![w] = next]

\* The handler of w is done, and tells its client of version v of document d.
Acknowledge(w, d, v) ==
  /\ Proceed(w, "idle")
  /\ job' = [job EXCEPT ![w] = NoJob]
  /\ answer' = "200"
  /\ acked' = [acked EXCEPT ![d] = @ \cup {v}]

\* Mutant: the hash is of the content alone.
NewVersionUnlinked(j) == [number |-> j.number, content |-> j.content,
                          hash |-> ContentHash(j.content, <<>>)]

\* What a publisher or a registration is about to append.
NewVersion(j) == [number |-> j.number, content |-> j.content,
                  hash |-> ContentHash(j.content, j.hash)]

-----------------------------------------------------------------------------
(* register()                                                               *)

\* The category is free; the id is a new uuid.
RegisterCheck(w, c) ==
  /\ phase[w] = "idle"
  /\ index[c] = NoDoc
  /\ \E d \in Docs, x \in Contents :
       /\ documents[d] = NoDoc
       /\ \A v \in Workers : phase[v] = "checked" => job[v].doc # d
       /\ job' = [job EXCEPT ![w] =
            [doc |-> d, category |-> c, content |-> x, hash |-> <<>>, number |-> 1]]
  /\ Proceed(w, "checked")
  /\ UNCHANGED <<storeVars, answer, publications, acked, disturbed>>

\* DuplicateCategoryError: 409.
RegisterDuplicate(w, c) == index[c] # NoDoc /\ AnswerNow(w, "409")

\* Mutant: the category is reserved as soon as the document is there.
RegisterDocumentIndexed(w) ==
  /\ phase[w] = "checked"
  /\ documents' = [documents EXCEPT ![job[w].doc] =
       [category |-> job[w].category, current |-> 1]]
  /\ index' = [index EXCEPT ![job[w].category] = job[w].doc]
  /\ Proceed(w, "documented")
  /\ UNCHANGED <<versions, job, answer, publications, acked, disturbed>>

RegisterDocument(w) ==
  /\ phase[w] = "checked"
  /\ documents' = [documents EXCEPT ![job[w].doc] =
       [category |-> job[w].category, current |-> 1]]
  /\ Proceed(w, "documented")
  /\ UNCHANGED <<versions, index, job, answer, publications, acked, disturbed>>

RegisterVersions(w) ==
  /\ phase[w] = "documented"
  /\ versions' = [versions EXCEPT ![job[w].doc] = <<NewVersion(job[w])>>]
  /\ Proceed(w, "versioned")
  /\ UNCHANGED <<documents, index, job, answer, publications, acked, disturbed>>

RegisterIndex(w) ==
  /\ phase[w] = "versioned"
  /\ index' = [index EXCEPT ![job[w].category] = job[w].doc]
  /\ Acknowledge(w, job[w].doc, NewVersion(job[w]))
  /\ UNCHANGED <<documents, versions, publications, disturbed>>

-----------------------------------------------------------------------------
(* publish_version()                                                        *)

\* The document and its history are looked up, and the last hash is read.
PublishBegin(w, d) ==
  /\ phase[w] = "idle"
  /\ documents[d] # NoDoc /\ versions[d] # <<>>
  /\ \E x \in Contents :
       job' = [job EXCEPT ![w] =
         [doc |-> d, category |-> documents[d].category, content |-> x,
          hash |-> Last(versions[d]).hash, number |-> 0]]
  /\ publications < MaxPublications
  /\ publications' = publications + 1
  /\ Proceed(w, "hashed")
  /\ disturbed' = IF PublishersOf(d) # {} THEN disturbed \cup {d} ELSE disturbed
  /\ UNCHANGED <<storeVars, answer, acked>>

\* Mutant: the number is the length of the history.
ReadNumberByLength(w) ==
  /\ phase[w] = "hashed"
  /\ job' = [job EXCEPT ![w].number = Len(versions[job[w].doc]) + 1]
  /\ Proceed(w, "numbered")
  /\ UNCHANGED <<storeVars, answer, publications, acked, disturbed>>

\* Mutant: the document is replaced before the version is there.
ReadNumberReplacing(w) ==
  LET d == job[w].doc IN
  /\ phase[w] = "hashed"
  /\ job' = [job EXCEPT ![w].number = Last(versions[d]).number + 1]
  /\ documents' = [documents EXCEPT ![d].current = Last(versions[d]).number + 1]
  /\ Proceed(w, "numbered")
  /\ UNCHANGED <<versions, index, answer, publications, acked, disturbed>>

\* The last element is looked up a second time, for its number.
ReadNumber(w) ==
  /\ phase[w] = "hashed"
  /\ job' = [job EXCEPT ![w].number = Last(versions[job[w].doc]).number + 1]
  /\ Proceed(w, "numbered")
  /\ UNCHANGED <<storeVars, answer, publications, acked, disturbed>>

\* Mutant: versions are kept by their number.
AppendVersionAtNumber(w) ==
  LET d == job[w].doc IN
  /\ phase[w] = "numbered"
  /\ versions' = [versions EXCEPT ![d] =
       SubSeq(@, 1, job[w].number - 1) \o <<NewVersion(job[w])>>]
  /\ Proceed(w, "appended")
  /\ UNCHANGED <<documents, index, job, answer, publications, acked, disturbed>>

AppendVersion(w) ==
  LET d == job[w].doc IN
  /\ phase[w] = "numbered"
  /\ versions' = [versions EXCEPT ![d] = Append(@, NewVersion(job[w]))]
  /\ Proceed(w, "appended")
  /\ UNCHANGED <<documents, index, job, answer, publications, acked, disturbed>>

ReplaceDocument(w) ==
  LET d == job[w].doc IN
  /\ phase[w] = "appended"
  /\ documents' = [documents EXCEPT ![d].current = job[w].number]
  /\ Acknowledge(w, d, NewVersion(job[w]))
  /\ UNCHANGED <<versions, index, publications, disturbed>>

-----------------------------------------------------------------------------
(* Reads                                                                    *)

\* DocumentNotFoundError: 404.
NotFound(w, d) == documents[d] = NoDoc /\ AnswerNow(w, "404")

\* A document is there before its versions are: _versions raises KeyError.
NoVersionsYet(w, d) ==
  documents[d] # NoDoc /\ versions[d] = <<>> /\ AnswerNow(w, "500")

\* get_by_category() looks the document of the index up.
ByCategory(w, c) ==
  AnswerNow(w, IF index[c] = NoDoc THEN "404"
               ELSE IF documents[index[c]] = NoDoc THEN "500" ELSE "200")

VerifyChain(w, d) ==
  /\ versions[d] # <<>>
  /\ AnswerNow(w, IF ChainIntact(versions[d]) THEN "intact" ELSE "broken")

\* latest_version() reads the document, ...
LatestBegin(w, d) ==
  /\ phase[w] = "idle"
  /\ documents[d] # NoDoc
  /\ job' = [job EXCEPT ![w] =
       [doc |-> d, category |-> documents[d].category, content |-> NoText,
        hash |-> <<>>, number |-> documents[d].current]]
  /\ Proceed(w, "reading")
  /\ UNCHANGED <<storeVars, answer, publications, acked, disturbed>>

\* ... and searches the history for the number it read.
LatestEnd(w) ==
  LET history == versions[job[w].doc] IN
  /\ phase[w] = "reading"
  /\ Proceed(w, "idle")
  /\ job' = [job EXCEPT ![w] = NoJob]
  /\ answer' = IF history = <<>> THEN "500"
               ELSE IF HasVersion(history, job[w].number) THEN "200" ELSE "lost"
  /\ UNCHANGED <<storeVars, publications, acked, disturbed>>

-----------------------------------------------------------------------------

Step(w) ==
  \/ RegisterDocument(w) \/ RegisterVersions(w) \/ RegisterIndex(w)
  \/ ReadNumber(w) \/ AppendVersion(w) \/ ReplaceDocument(w)
  \/ LatestEnd(w)

Request(w) ==
  \/ \E c \in Categories : RegisterCheck(w, c) \/ RegisterDuplicate(w, c) \/ ByCategory(w, c)
  \/ \E d \in Docs : \/ PublishBegin(w, d) \/ LatestBegin(w, d) \/ VerifyChain(w, d)
                     \/ NotFound(w, d) \/ NoVersionsYet(w, d)

Next == \E w \in Workers : Request(w) \/ Step(w)

Spec == Init /\ [][Next]_vars

-----------------------------------------------------------------------------
(* Properties                                                               *)

\* The types of the variables.
TypeOK ==
  /\ documents \in [Docs -> Document \cup {NoDoc}]
  /\ versions \in [Docs -> Seq(DocumentVersion)]
  /\ index \in [Categories -> Docs \cup {NoDoc}]
  /\ phase \in [Workers -> {"idle", "checked", "documented", "versioned",
                            "hashed", "numbered", "appended", "reading"}]
  /\ job \in [Workers -> Job \cup {NoJob}]
  /\ \A w \in Workers : phase[w] # "idle" => job[w] \in Job
  /\ answer \in {"none", "200", "404", "409", "500", "intact", "broken", "lost"}
  /\ publications \in Nat
  /\ acked \in [Docs -> SUBSET DocumentVersion]
  /\ disturbed \subseteq Docs

\* However publications race: a document's version numbers have no gap.  Each
\* version but those numbered 1 follows one with the number before its own.
NumbersWithoutGap ==
  \A d \in Docs : \A i \in 1..Len(versions[d]) :
    versions[d][i].number > 1 =>
      \E j \in 1..(i - 1) : versions[d][j].number = versions[d][i].number - 1

\* However publications race: every version is hashed on top of one that was
\* published before it.  A race may fork the chain, and verify_chain() then
\* reports it broken, but it never detaches a version from the first.
EveryVersionExtends ==
  \A d \in Docs : \A i \in 1..Len(versions[d]) :
    LET v == versions[d][i] IN
    IF i = 1 THEN v.hash = ContentHash(v.content, <<>>)
    ELSE \E j \in 1..(i - 1) : v.hash = ContentHash(v.content, versions[d][j].hash)

\* latest_version() reads the number of the current version and the history
\* one after the other, and finds the version whatever is published between.
LatestIsFound == answer # "lost"

\* A version that a client was told of stays in the history.
PublishedIsKept ==
  \A d \in Docs : \A v \in acked[d] : \E i \in 1..Len(versions[d]) : versions[d][i] = v

\* The history of a document whose publications never overlapped: the chain
\* verifies, versions are numbered by their place, and while nobody publishes
\* the document shows the last one.
UndisturbedVerifies ==
  \A d \in Docs \ disturbed :
    /\ ChainIntact(versions[d])
    /\ \A i \in 1..Len(versions[d]) : versions[d][i].number = i
    /\ versions[d] # <<>> /\ PublishersOf(d) = {} =>
         documents[d].current = Len(versions[d])

\* Whoever finds a document by its category can read its versions, although
\* a registration fills three dictionaries and registrations may race.
IndexPointsHome ==
  \A c \in Categories : index[c] # NoDoc =>
    /\ documents[index[c]] # NoDoc
    /\ documents[index[c]].category = c
    /\ versions[index[c]] # <<>>
=============================================================================
