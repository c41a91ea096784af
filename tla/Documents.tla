------------------------------ MODULE Documents ------------------------------
(***************************************************************************)
(* The documents the assistant searches.  An upload stores the file,       *)
(* creates the row, embeds the pages through a provider with retries, and  *)
(* writes all chunks in one transaction; a deletion only switches the row  *)
(* off, maybe while the upload still embeds; an update fetches a row that  *)
(* is on and later saves all of it.  A search makes two queries, by vector *)
(* and by words, each of which leaves out what is switched off, and merges *)
(* them.                                                                   *)
(***************************************************************************)
EXTENDS Naturals

CONSTANTS
    Doc,        \* ids of the Document table
    Searcher,   \* threads that answer questions
    Editor,     \* users who update documents, one at a time each
    MaxEmbedTries \* tries of one embedding batch: 3 in the code

ASSUME DocumentAssumption == MaxEmbedTries \in Nat \ {0}

VARIABLES
    doc,        \* [Doc -> row: whether it is active, what it says of its chunks]
    chunks,     \* documents whose chunks are in the DocumentChunk table
    upload,     \* [Doc -> the upload: who runs it, its step, tries of the current batch]
    search,     \* [Searcher -> step, the documents found so far]
    edited,     \* [Editor -> the document whose row his update has fetched, if any]
    deletedBefore, \* [Searcher -> documents deleted before the search began] (history)
    overtaken   \* documents deleted or switched off while an update had fetched them (history)

documentVars == <<doc, chunks, upload, search, edited, deletedBefore, overtaken>>

DocumentTypeOK ==
    /\ doc \in [Doc -> [status: {"absent", "active", "off", "removed"}, total: {0, 1}]]
    /\ chunks \subseteq Doc
    /\ upload \in [Doc -> [by: {"none", "web", "command"}, tries: 0..MaxEmbedTries,
                           pc: {"file", "extract", "embed", "write", "count", "failed", "done"}]]
    /\ search \in [Searcher -> [pc: {"idle", "dense", "sparse", "merged"}, found: SUBSET Doc]]
    /\ edited \in [Editor -> SUBSET Doc]
    /\ deletedBefore \in [Searcher -> SUBSET Doc]
    /\ overtaken \subseteq Doc

NoUpload == [by |-> "none", tries |-> 0, pc |-> "file"]
NoSearch == [pc |-> "idle", found |-> {}]

DocumentInit ==
    /\ doc = [d \in Doc |-> [status |-> "absent", total |-> 0]]
    /\ chunks = {}
    /\ upload = [d \in Doc |-> NoUpload]
    /\ search = [s \in Searcher |-> NoSearch]
    /\ edited = [e \in Editor |-> {}]
    /\ deletedBefore = [s \in Searcher |-> {}]
    /\ overtaken = {}

-----------------------------------------------------------------------------
AtUpload(d, pc) == upload[d].by # "none" /\ upload[d].pc = pc
GotoUpload(d, pc) == upload' = [upload EXCEPT ![d].pc = pc, ![d].tries = 0]
Others == <<search, edited, deletedBefore>>   \* what no upload touches

\* A file arrives through the endpoint, or on the command line of ingest_document.
BeginUpload(d, by) ==
    /\ upload[d] = NoUpload
    /\ upload' = [upload EXCEPT ![d].by = by]
    /\ UNCHANGED <<doc, chunks, overtaken, Others>>

\* The endpoint stores the file first and may fail with nothing created.
StoreFails(d) ==
    /\ AtUpload(d, "file") /\ upload[d].by = "web"
    /\ GotoUpload(d, "done")
    /\ UNCHANGED <<doc, chunks, overtaken, Others>>

\* The row is active from the start, before there is anything to find.
CreateDocument(d) ==
    /\ AtUpload(d, "file")
    /\ doc' = [doc EXCEPT ![d].status = "active"]
    /\ GotoUpload(d, "extract")
    /\ UNCHANGED <<chunks, overtaken, Others>>

\* ingest_pdf: a file that is no PDF raises, one without text is a success with no chunks.
Extract(d) ==
    /\ AtUpload(d, "extract")
    /\ \E next \in {"embed", "failed", "done"} : GotoUpload(d, next)
    /\ UNCHANGED <<doc, chunks, overtaken, Others>>

\* generate_embeddings: a batch fails and is tried again, until it has failed MaxEmbedTries times.
Embed(d) == AtUpload(d, "embed") /\ GotoUpload(d, "write") /\ UNCHANGED <<doc, chunks, overtaken, Others>>

EmbedFails(d) ==
    /\ AtUpload(d, "embed")
    /\ IF upload[d].tries + 1 = MaxEmbedTries THEN GotoUpload(d, "failed")
       ELSE upload' = [upload EXCEPT ![d].tries = @ + 1]
    /\ UNCHANGED <<doc, chunks, overtaken, Others>>

\* The transaction that replaces the document's chunks by the new ones; it may be rolled
\* back, and the count of the chunks after it may fail.
WriteChunks(d) ==
    /\ AtUpload(d, "write")
    /\ \/ chunks' = chunks \cup {d} /\ (GotoUpload(d, "count") \/ GotoUpload(d, "failed"))
       \/ UNCHANGED chunks /\ GotoUpload(d, "failed")
    /\ UNCHANGED <<doc, overtaken, Others>>

\* Faulty: the whole row is saved, as it was when the upload created it.
SaveCountWholeRow(d) ==
    /\ AtUpload(d, "count")
    /\ doc' = [doc EXCEPT ![d] = [status |-> "active", total |-> 1]]
    /\ GotoUpload(d, "done")
    /\ UNCHANGED <<chunks, overtaken, Others>>

\* The row gets its count; only that column is saved, so that a deletion stands.
SaveCount(d) ==
    /\ AtUpload(d, "count")
    /\ doc' = [doc EXCEPT ![d].total = 1]
    /\ GotoUpload(d, "done")
    /\ UNCHANGED <<chunks, overtaken, Others>>

Fetched(d) == \E e \in Editor : d \in edited[e]
Overtaking(d) == overtaken' = IF Fetched(d) THEN overtaken \cup {d} ELSE overtaken

\* On an error the command removes the row again, and any chunks with it; the endpoint
\* leaves it listed as active, and answers that the upload failed.
Fail(d) ==
    /\ AtUpload(d, "failed")
    /\ GotoUpload(d, "done")
    /\ IF upload[d].by = "command"
       THEN /\ doc' = [doc EXCEPT ![d].status = "removed"]
            /\ chunks' = chunks \ {d}
            /\ Overtaking(d)
       ELSE UNCHANGED <<doc, chunks, overtaken>>
    /\ UNCHANGED Others

\* The process that runs the upload is killed.
KillUpload(d) ==
    /\ upload[d].by # "none" /\ upload[d].pc # "done"
    /\ GotoUpload(d, "done")
    /\ UNCHANGED <<doc, chunks, overtaken, Others>>

\* destroy: the row is switched off, the chunks stay.
DestroyDocument(d) ==
    /\ doc[d].status = "active"
    /\ doc' = [doc EXCEPT ![d].status = "off"]
    /\ Overtaking(d)
    /\ UNCHANGED <<chunks, upload, Others>>

\* update and partial_update, which DocumentViewSet inherits for every viewer: get_object
\* finds what is switched on ...
FetchDocument(e, d) ==
    /\ edited[e] = {} /\ doc[d].status = "active"
    /\ edited' = [edited EXCEPT ![e] = {d}]
    /\ UNCHANGED <<doc, chunks, upload, search, deletedBefore, overtaken>>

\* ... and serializer.save() writes every column: is_active as it was fetched, or off if
\* the request says so, and a count of chunks that the request may set too.  A row that
\* has been removed since is inserted again.  A request that does not validate saves nothing.
SaveDocument(e, d) ==
    /\ d \in edited[e]
    /\ edited' = [edited EXCEPT ![e] = {}]
    /\ \/ UNCHANGED <<doc, overtaken>>
       \/ \E row \in [status: {"active", "off"}, total: {0, 1}] :
            /\ doc' = [doc EXCEPT ![d] = row]
            /\ overtaken' = IF row.status = "off" /\ \E other \in Editor \ {e} : d \in edited[other]
                            THEN overtaken \cup {d} ELSE overtaken
    /\ UNCHANGED <<chunks, upload, search, deletedBefore>>

-----------------------------------------------------------------------------
\* What either query may return: chunks of active documents, whose row is joined.
Findable == {d \in chunks : doc[d].status = "active"}

Gone(d) == doc[d].status \in {"off", "removed"}

\* The question is embedded; from here on the search counts as begun.
BeginSearch(s) ==
    /\ search[s].pc = "idle"
    /\ search' = [search EXCEPT ![s].pc = "dense"]
    /\ deletedBefore' = [deletedBefore EXCEPT ![s] = {d \in Doc : Gone(d)}]
    /\ UNCHANGED <<doc, chunks, upload, edited, overtaken>>

\* One of the two queries, which finds some of what there is, or fails and finds nothing.
QueryChunks(s, pc, next) ==
    /\ search[s].pc = pc
    /\ \E found \in SUBSET Findable :
        search' = [search EXCEPT ![s] = [pc |-> next, found |-> @.found \cup found]]
    /\ UNCHANGED <<doc, chunks, upload, edited, deletedBefore, overtaken>>

DenseSearch(s) == QueryChunks(s, "dense", "sparse")
SparseSearch(s) == QueryChunks(s, "sparse", "merged")

\* The merged chunks go to the reranker.
HandOver(s) ==
    /\ search[s].pc = "merged"
    /\ search' = [search EXCEPT ![s] = NoSearch]
    /\ deletedBefore' = [deletedBefore EXCEPT ![s] = {}]
    /\ UNCHANGED <<doc, chunks, upload, edited, overtaken>>

DocumentNext ==
    \/ \E d \in Doc :
        \/ \E by \in {"web", "command"} : BeginUpload(d, by)
        \/ StoreFails(d) \/ CreateDocument(d) \/ Extract(d) \/ Embed(d) \/ EmbedFails(d)
        \/ WriteChunks(d) \/ SaveCount(d) \/ Fail(d) \/ KillUpload(d) \/ DestroyDocument(d)
        \/ \E e \in Editor : FetchDocument(e, d) \/ SaveDocument(e, d)
    \/ \E s \in Searcher : BeginSearch(s) \/ DenseSearch(s) \/ SparseSearch(s) \/ HandOver(s)

DocumentSpec == DocumentInit /\ [][DocumentNext]_documentVars

-----------------------------------------------------------------------------
\* A search that begins after a document was deleted or switched off finds none of its
\* chunks, although the chunks stay and an upload that was still embedding may write them
\* afterwards; unless an update had fetched the document by then, which brings it back.
DeletedIsNotFound == \A s \in Searcher : search[s].found \cap deletedBefore[s] \subseteq overtaken
=============================================================================
