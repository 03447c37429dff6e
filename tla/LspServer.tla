----------------------------- MODULE LspServer -----------------------------
(***************************************************************************)
(* The language server's main loop and its scheduler: crates/              *)
(* typepython_lsp/src/server.rs and scheduler.rs, with the editor as the   *)
(* environment.                                                            *)
(*                                                                         *)
(* A reader thread puts what the editor writes into an unbounded channel;  *)
(* the loop takes one message at a time, answers requests at once and      *)
(* holds diagnostics back for a debounce period.  The diagnostics of a     *)
(* document are its text here: Clean has none, Broken has some.            *)
(***************************************************************************)
EXTENDS Naturals, Sequences

CONSTANTS
    Uris,            \* documents the editor may open
    ProjectUris,     \* those the project's source roots and patterns hold
    Ids,             \* request ids
    Debounce,        \* diagnostic_debounce, in ticks of the clock
    MaxDeferrals,    \* MAX_HIGH_PRIORITY_DEFERRALS
    MaxChannel,      \* bound: messages on their way to the loop
    IdsReused        \* may the editor reuse an id whose cancellation came too late?

ASSUME ServerAssumption ==
    /\ ProjectUris \subseteq Uris
    /\ Debounce \in Nat
    /\ MaxDeferrals \in Nat
    /\ MaxChannel \in Nat
    /\ IdsReused \in BOOLEAN

Texts == {"clean", "broken"}
Absent == "absent"         \* no such file, or no such document
NotOpen == "not open"
NoRequest == [uri |-> "none", text |-> "none"]
Nothing == [uri \in {} |-> "clean"]
NoBatch == [wait |-> 0, deferrals |-> 0, notifications |-> Nothing]  \* as good as an empty one
NotBuilt == << >>

\* Of the requests only "hover" stands for a high-priority method here, and
\* "executeCommand" for the others.
HighPriority == {"hover"}
DocumentMethods == {"didOpen", "didChange", "didClose", "didChangeWatchedFiles"}

VARIABLES
    disk,         \* the project's files as they are
    editor,       \* the editor's buffers, after everything it has sent
    asked,        \* per id, the request the editor waits for, and the text it expects
    shown,        \* the diagnostics the editor shows
    channel,      \* messages read and not yet handled
    overlays,     \* AnalysisHost.overlays
    documents,    \* the cached workspace's documents, NotBuilt before the first use
    pending,      \* LspScheduler.pending_diagnostics
    canceled,     \* LspScheduler.canceled_request_ids
    status        \* of the loop: "serving", "stopped" (Ok) or "failed" (Err)

client == <<disk, editor, asked>>
vars == <<disk, editor, asked, shown, channel, overlays, documents, pending, canceled, status>>
-----------------------------------------------------------------------------
(* The workspace, as far as the loop can tell. *)

\* The diagnostics of two lists, those of the first where both have some.
Over(first, second) ==
    [uri \in DOMAIN first \cup DOMAIN second |->
        IF uri \in DOMAIN first THEN first[uri] ELSE second[uri]]

\* publish_diagnostics_notification of a document that has none.
Cleared(uri) == [cleared \in {uri} |-> "clean"]

TextOf(uri, buffers) == IF buffers[uri] = NotOpen THEN disk[uri] ELSE buffers[uri]

\* IncrementalWorkspace::new indexes every project file, open ones from their
\* overlays; later a document event re-reads the one document it names.
Updated(uri, buffers) ==
    [project \in ProjectUris |->
        IF documents = NotBuilt \/ project = uri THEN TextOf(project, buffers) ELSE documents[project]]

\* publish_diagnostics: every document of the workspace, and nothing for an
\* open document the workspace does not hold.
Published(docs, buffers) ==
    Over([uri \in {u \in ProjectUris : docs[u] # Absent} |-> docs[uri]],
         [uri \in {u \in Uris : buffers[u] # NotOpen} |-> "clean"])
-----------------------------------------------------------------------------
(* The scheduler. *)

\* Mutant of Scheduled: the batch that waits is kept.
ScheduledOnce(cleared, docs, buffers) ==
    IF pending # NoBatch
    THEN pending
    ELSE [wait |-> Debounce, deferrals |-> 0, notifications |-> Over(Published(docs, buffers), cleared)]

\* schedule_diagnostics: a new batch takes the place of the one that waits.
Scheduled(cleared, docs, buffers) ==
    [wait |-> Debounce, deferrals |-> 0, notifications |-> Over(Published(docs, buffers), cleared)]

\* flush_all: the editor now shows what the batch says.
Flush(batch) ==
    /\ pending' = NoBatch
    /\ shown' = Over(batch.notifications, shown)

DeferOrFlush(batch, deferred, next) ==
    \/ /\ batch = NoBatch \/ batch.wait > 0
       /\ pending' = batch
       /\ UNCHANGED shown
    \/ /\ batch # NoBatch /\ batch.wait = 0
       /\ deferred
       /\ pending' = next
       /\ UNCHANGED shown
    \/ /\ batch # NoBatch /\ batch.wait = 0
       /\ ~deferred
       /\ Flush(batch)

\* Mutant of FlushDueAfter: one deferral too many.
FlushDueAfterOneMore(method, batch) ==
    DeferOrFlush(batch, method \in HighPriority /\ batch.deferrals <= MaxDeferrals,
                 [batch EXCEPT !.deferrals = @ + 1])

\* Mutant of FlushDueAfter: deferrals are not counted.
FlushDueAfterUncounted(method, batch) == DeferOrFlush(batch, method \in HighPriority, batch)

\* flush_due_after: what is left of the batch once a message was dispatched.
FlushDueAfter(method, batch) ==
    DeferOrFlush(batch, method \in HighPriority /\ batch.deferrals < MaxDeferrals,
                 [batch EXCEPT !.deferrals = @ + 1])
-----------------------------------------------------------------------------
(* The loop takes the oldest message from the channel. *)

Incoming == channel[1]

Take(method) ==
    /\ status = "serving"
    /\ channel # << >>
    /\ Incoming.method = method
    /\ channel' = Tail(channel)
    /\ UNCHANGED <<disk, editor>>

\* schedule_diagnostics_batch, then flush_due_after.
Reschedule(method, cleared) ==
    /\ FlushDueAfter(method, Scheduled(cleared, documents', overlays'))
    /\ UNCHANGED <<asked, canceled, status>>

\* A handler that fails leaves the pending batch; the error of a notification
\* is answered by nothing.
Reject(method) ==
    /\ FlushDueAfter(method, pending)
    /\ UNCHANGED <<asked, overlays, documents, canceled, status>>

DidOpen ==
    /\ Take("didOpen")
    /\ overlays' = [overlays EXCEPT ![Incoming.uri] = Incoming.text]
    /\ documents' = Updated(Incoming.uri, overlays')
    /\ Reschedule("didOpen", Nothing)

\* Mutant of DidChange: the documents are left for the next event to update.
DidChangeLazily ==
    /\ Take("didChange")
    /\ UNCHANGED documents
    /\ \/ /\ overlays[Incoming.uri] # NotOpen
          /\ Incoming.text # "out of sync"
          /\ overlays' = [overlays EXCEPT ![Incoming.uri] = Incoming.text]
          /\ FlushDueAfter("didChange", Scheduled(Nothing, documents, overlays'))
          /\ UNCHANGED <<asked, canceled, status>>
       \/ /\ overlays[Incoming.uri] = NotOpen \/ Incoming.text = "out of sync"
          /\ FlushDueAfter("didChange", pending)
          /\ UNCHANGED <<asked, overlays, canceled, status>>

DidChange ==
    /\ Take("didChange")
    /\ \/ /\ overlays[Incoming.uri] # NotOpen
          /\ Incoming.text # "out of sync"
          /\ overlays' = [overlays EXCEPT ![Incoming.uri] = Incoming.text]
          /\ documents' = Updated(Incoming.uri, overlays')
          /\ Reschedule("didChange", Nothing)
       \/ /\ overlays[Incoming.uri] = NotOpen \/ Incoming.text = "out of sync"
          /\ Reject("didChange")

DidClose ==
    /\ Take("didClose")
    /\ \/ /\ overlays[Incoming.uri] # NotOpen
          /\ overlays' = [overlays EXCEPT ![Incoming.uri] = NotOpen]
          /\ documents' = Updated(Incoming.uri, overlays')
          /\ Reschedule("didClose", Cleared(Incoming.uri))
       \/ /\ overlays[Incoming.uri] = NotOpen
          /\ Reject("didClose")

\* A closed document reported deleted is cleared; the document is read again
\* from its overlay or from the disk as it is now, whatever was reported.
DidChangeWatchedFiles ==
    /\ Take("didChangeWatchedFiles")
    /\ UNCHANGED overlays
    /\ documents' = Updated(Incoming.uri, overlays)
    /\ Reschedule("didChangeWatchedFiles",
                  IF Incoming.deleted /\ overlays[Incoming.uri] = NotOpen
                  THEN Cleared(Incoming.uri)
                  ELSE Nothing)

\* A request whose id was canceled is dropped without a response, and without
\* a look at the pending diagnostics.
DropCanceled ==
    \E method \in {"hover", "executeCommand"} :
        /\ Take(method)
        /\ Incoming.id \in canceled
        /\ canceled' = canceled \ {Incoming.id}
        /\ UNCHANGED <<asked, shown, overlays, documents, pending, status>>

\* Mutant of Answer: diagnostics that go out take the place of the response.
AnswerReplaced(method) ==
    /\ Take(method)
    /\ Incoming.id \notin canceled
    /\ FlushDueAfter(method, pending)
    /\ asked' = IF pending # NoBatch /\ pending' = NoBatch
                THEN asked
                ELSE [asked EXCEPT ![Incoming.id] = NoRequest]
    /\ UNCHANGED <<overlays, documents, canceled, status>>

\* Any other request is answered at once.
Answer(method) ==
    /\ Take(method)
    /\ Incoming.id \notin canceled
    /\ asked' = [asked EXCEPT ![Incoming.id] = NoRequest]
    /\ FlushDueAfter(method, pending)
    /\ UNCHANGED <<overlays, documents, canceled, status>>

CancelRequest ==
    /\ Take("cancelRequest")
    /\ canceled' = canceled \cup {Incoming.id}
    /\ FlushDueAfter("cancelRequest", pending)
    /\ UNCHANGED <<asked, overlays, documents, status>>

\* Mutant of Stop: pending diagnostics are lost.
StopWithoutFlush ==
    /\ Take("exit") \/ Take("end of input")
    /\ pending' = NoBatch
    /\ canceled' = {}
    /\ status' = "stopped"
    /\ UNCHANGED <<asked, shown, overlays, documents>>

\* exit, or the end of the input: pending diagnostics go out, then the loop
\* ends and the scheduler is reset.
Stop ==
    /\ Take("exit") \/ Take("end of input")
    /\ Flush(pending)
    /\ canceled' = {}
    /\ status' = "stopped"
    /\ UNCHANGED <<asked, overlays, documents>>

\* Input that cannot be read or decoded ends the loop with the error.
Fail ==
    /\ Take("unreadable")
    /\ status' = "failed"
    /\ UNCHANGED <<asked, shown, overlays, documents, pending, canceled>>

\* recv_timeout ran out: nothing was in the channel when the batch was due.
FlushDueTimeout ==
    /\ status = "serving"
    /\ channel = << >>
    /\ pending # NoBatch /\ pending.wait = 0
    /\ Flush(pending)
    /\ UNCHANGED <<client, channel, overlays, documents, canceled, status>>

Tick ==
    /\ status = "serving"
    /\ pending.wait > 0
    /\ pending' = [pending EXCEPT !.wait = @ - 1]
    /\ UNCHANGED <<client, shown, channel, overlays, documents, canceled, status>>
-----------------------------------------------------------------------------
(* The editor and the file system. *)

Send(message) ==
    /\ Len(channel) < MaxChannel
    /\ \A i \in 1 .. Len(channel) : channel[i].method \notin {"exit", "end of input", "unreadable"}
    /\ channel' = Append(channel, message)
    /\ UNCHANGED <<shown, overlays, documents, pending, canceled, status>>

SendOpen(uri, text) ==
    /\ editor[uri] = NotOpen
    /\ editor' = [editor EXCEPT ![uri] = text]
    /\ Send([method |-> "didOpen", uri |-> uri, text |-> text])
    /\ UNCHANGED <<disk, asked>>

SendChange(uri, text) ==
    /\ editor[uri] # NotOpen
    /\ editor' = [editor EXCEPT ![uri] = text]
    /\ Send([method |-> "didChange", uri |-> uri, text |-> text])
    /\ UNCHANGED <<disk, asked>>

\* A change the server must refuse: sent twice, or for a closed document.
SendOutOfSync(uri) ==
    /\ Send([method |-> "didChange", uri |-> uri, text |-> "out of sync"])
    /\ UNCHANGED client

SendClose(uri) ==
    /\ editor' = [editor EXCEPT ![uri] = NotOpen]
    /\ Send([method |-> "didClose", uri |-> uri])
    /\ UNCHANGED <<disk, asked>>

\* A file is written or removed, and the editor's watcher reports it; what a
\* file outside the project holds is nobody's concern.
FileChange(uri, text) ==
    /\ uri \in ProjectUris => disk[uri] # text
    /\ disk' = [project \in ProjectUris |-> IF project = uri THEN text ELSE disk[project]]
    /\ Send([method |-> "didChangeWatchedFiles", uri |-> uri, deleted |-> text = Absent])
    /\ UNCHANGED <<editor, asked>>

\* Ids are fresh: one of the model's stands for a new one as long as nothing
\* the server keeps, and nothing on its way to it, mentions the old.
CanAsk(id) ==
    /\ asked[id] = NoRequest
    /\ \A i \in 1 .. Len(channel) : channel[i].method = "cancelRequest" => channel[i].id # id \/ IdsReused
    /\ id \notin canceled \/ IdsReused

SendRequest(id, method, uri) ==
    /\ CanAsk(id)
    /\ editor[uri] # NotOpen
    /\ asked' = [asked EXCEPT ![id] = [uri |-> uri, text |-> editor[uri]]]
    /\ Send([method |-> method, id |-> id])
    /\ UNCHANGED <<disk, editor>>

SendCancel(id) ==
    /\ asked[id] # NoRequest
    /\ \A i \in 1 .. Len(channel) : channel[i] # [method |-> "cancelRequest", id |-> id]
    /\ Send([method |-> "cancelRequest", id |-> id])
    /\ UNCHANGED client

SendLast(method) ==
    /\ Send([method |-> method])
    /\ UNCHANGED client
-----------------------------------------------------------------------------
Init ==
    /\ disk \in [ProjectUris -> Texts \cup {Absent}]
    /\ editor = [uri \in Uris |-> NotOpen]
    /\ asked = [id \in Ids |-> NoRequest]
    /\ shown = [uri \in Uris |-> "clean"]
    /\ channel = << >>
    /\ overlays = [uri \in Uris |-> NotOpen]
    /\ documents = NotBuilt
    /\ pending = NoBatch
    /\ canceled = {}
    /\ status = "serving"

Serve ==
    \/ DidOpen
    \/ DidChange
    \/ DidClose
    \/ DidChangeWatchedFiles
    \/ DropCanceled
    \/ Answer("hover")
    \/ Answer("executeCommand")
    \/ CancelRequest
    \/ Stop
    \/ Fail
    \/ FlushDueTimeout

Editor ==
    /\ status = "serving"
    /\ \/ \E uri \in Uris, text \in Texts :
            SendOpen(uri, text) \/ SendChange(uri, text)
       \/ \E uri \in Uris, text \in Texts \cup {Absent} : FileChange(uri, text)
       \/ \E uri \in Uris : SendOutOfSync(uri) \/ SendClose(uri)
       \/ \E id \in Ids, uri \in Uris :
            SendRequest(id, "hover", uri) \/ SendRequest(id, "executeCommand", uri)
       \/ \E id \in Ids : SendCancel(id)
       \/ \E method \in {"exit", "end of input", "unreadable"} : SendLast(method)

Next == Serve \/ Tick \/ Editor

\* The loop runs whenever it has a message or a batch that is due, and time
\* passes.  The editor owes nothing.
Fairness == WF_vars(Serve) /\ WF_vars(Tick)

Spec == Init /\ [][Next]_vars /\ Fairness
-----------------------------------------------------------------------------
Batches ==
    [wait : 0 .. Debounce, deferrals : 0 .. MaxDeferrals,
     notifications : UNION {[uris -> Texts] : uris \in SUBSET Uris}]

TypeOK ==
    /\ disk \in [ProjectUris -> Texts \cup {Absent}]
    /\ editor \in [Uris -> Texts \cup {NotOpen}]
    /\ asked \in [Ids -> {NoRequest} \cup [uri : Uris, text : Texts]]
    /\ shown \in [Uris -> Texts]
    /\ Len(channel) <= MaxChannel
    /\ overlays \in [Uris -> Texts \cup {NotOpen}]
    /\ documents \in {NotBuilt} \cup [ProjectUris -> Texts \cup {Absent}]
    /\ pending \in Batches
    /\ canceled \subseteq Ids
    /\ status \in {"serving", "stopped", "failed"}

Current == Published(documents, overlays)

\* What waits for its debounce is what the documents say now: a batch computed
\* from older text never goes out (schedule_diagnostics replaces it, and a
\* refused notification leaves both alone).
NoStaleBatch ==
    pending # NoBatch =>
        \A uri \in DOMAIN Current :
            uri \in DOMAIN pending.notifications /\ pending.notifications[uri] = Current[uri]

\* With nothing pending, the editor shows the diagnostics of every document
\* the server knows: each path that takes the batch also writes it, exit and
\* the end of input included.
ShownIsCurrent ==
    (pending = NoBatch /\ documents # NotBuilt) =>
        \A uri \in DOMAIN Current : shown[uri] = Current[uri]

\* A request on an open document is answered from the text the editor had when
\* it asked, whatever it typed before and after.
AnsweredInOrder ==
    [][\A id \in Ids :
        (asked[id] # NoRequest /\ asked'[id] = NoRequest /\ asked[id].uri \in ProjectUris) =>
            documents[asked[id].uri] = asked[id].text]_vars

\* Diagnostics reach the editor once it stops changing documents, even if it
\* never stops asking: the deferrals of a due batch are bounded.
DiagnosticsSettle ==
    <>[](\A i \in 1 .. Len(channel) : channel[i].method \notin DocumentMethods) =>
        <>[](status = "failed" \/ pending = NoBatch)

\* A request waits in the channel, and no cancellation of its id, left over from
\* an earlier request, is ahead of it.
Answerable(id) ==
    /\ id \notin canceled
    /\ \E i \in 1 .. Len(channel) :
        /\ channel[i].method \in {"hover", "executeCommand"} /\ channel[i].id = id
        /\ \A j \in 1 .. i - 1 : channel[j] # [method |-> "cancelRequest", id |-> id]

\* Every request is answered while the loop runs, canceled in time or not, unless
\* its id is one that an earlier cancellation holds.
RequestsAnswered ==
    \A id \in Ids : Answerable(id) ~> (asked[id] = NoRequest \/ status # "serving")

\* The test of a watched delete (tests.rs:2902) expects it to clear the
\* diagnostics of the file: with nothing left to do, the editor shows none for
\* a document the server no longer knows.
ClearedWhenGone ==
    (status = "serving" /\ channel = << >> /\ pending = NoBatch /\ documents # NotBuilt) =>
        \A uri \in Uris \ DOMAIN Current : shown[uri] = "clean"
=============================================================================
