--------------------------- MODULE LspServerProofs ---------------------------
(***************************************************************************)
(* The scheduler is proved for every set of documents, debounce, number of *)
(* deferrals and traffic: what waits to be shown is never out of date, and *)
(* when nothing waits the editor has been shown all there is.              *)
(*                                                                         *)
(* Requests are answered from the text the editor had when it asked, for   *)
(* every set of documents and ids and every length of the channel.  The    *)
(* argument runs the server ahead: what its buffers will hold once it has  *)
(* handled the messages before one is what the editor's held when it sent  *)
(* that one.                                                               *)
(***************************************************************************)
EXTENDS LspServer, TLAPS

ShownPerUri == Uris \subseteq DOMAIN shown

IsBatch(batch) ==
    batch = [wait |-> batch.wait, deferrals |-> batch.deferrals, notifications |-> batch.notifications]

\* The batch says of every published document what these documents and overlays say.
Covers(batch, docs, buffers) ==
    \A uri \in DOMAIN Published(docs, buffers) :
        /\ uri \in DOMAIN batch.notifications
        /\ batch.notifications[uri] = Published(docs, buffers)[uri]

PendingCovers == pending # NoBatch => Covers(pending, documents, overlays)

IInv == ShownPerUri /\ IsBatch(pending) /\ PendingCovers /\ ShownIsCurrent
-----------------------------------------------------------------------------
LEMMA CurrentDomain == ASSUME NEW docs, NEW buffers PROVE DOMAIN Published(docs, buffers) \subseteq Uris
BY ServerAssumption DEF Published, Over

LEMMA NoBatchIsEmpty == IsBatch(NoBatch) /\ DOMAIN NoBatch.notifications = {}
BY DEF NoBatch, Nothing, IsBatch

\* schedule_diagnostics puts every published document into the batch, whatever
\* notifications that clear one come with it.
LEMMA ScheduledCovers ==
    ASSUME NEW cleared, NEW docs, NEW buffers
    PROVE /\ IsBatch(Scheduled(cleared, docs, buffers))
          /\ Covers(Scheduled(cleared, docs, buffers), docs, buffers)
<1> DEFINE published == Published(docs, buffers)
<1>1. Scheduled(cleared, docs, buffers).notifications = Over(published, cleared)
  BY DEF Scheduled
<1>2. \A uri \in DOMAIN published :
        uri \in DOMAIN Over(published, cleared) /\ Over(published, cleared)[uri] = published[uri]
  <2> HIDE DEF published
  <2> QED
    BY DEF Over
<1> QED
  BY <1>1, <1>2 DEF Covers, IsBatch, Scheduled

\* A batch that goes out is what the editor then shows.
LEMMA FlushShows ==
    ASSUME ShownPerUri, NEW batch, Flush(batch),
           Covers(batch, documents', overlays')
    PROVE IInv'
<1>1. pending' = NoBatch /\ shown' = Over(batch.notifications, shown)
  BY DEF Flush
<1>2. ShownPerUri'
  BY <1>1 DEF ShownPerUri, Over
<1>3. ASSUME NEW uri \in DOMAIN Current' PROVE shown'[uri] = Current'[uri]
  BY <1>1, <1>3 DEF Covers, Over, Current
<1> QED
  BY <1>1, <1>2, <1>3, NoBatchIsEmpty DEF IInv, PendingCovers, ShownIsCurrent

\* flush_due_after with a batch that covers the documents: it waits, is put off, or
\* goes out.
LEMMA BatchKept ==
    ASSUME ShownPerUri, NEW method, NEW batch, IsBatch(batch),
           Covers(batch, documents', overlays'), FlushDueAfter(method, batch)
    PROVE IInv'
<1>1. ASSUME IsBatch(pending'), pending'.notifications = batch.notifications, UNCHANGED shown
      PROVE IInv'
  <2>1. Covers(pending', documents', overlays')
    BY <1>1 DEF Covers
  <2>2. ASSUME pending' = NoBatch PROVE DOMAIN Current' = {}
    BY <2>1, <2>2, NoBatchIsEmpty DEF Covers, Current
  <2> QED
    BY <1>1, <2>1, <2>2 DEF IInv, ShownPerUri, PendingCovers, ShownIsCurrent
<1>2. CASE pending' = batch /\ UNCHANGED shown
  BY <1>1, <1>2
<1>3. CASE pending' = [batch EXCEPT !.deferrals = @ + 1] /\ UNCHANGED shown
  BY <1>1, <1>3 DEF IsBatch
<1>4. CASE Flush(batch)
  BY <1>4, FlushShows
<1> QED
  BY <1>2, <1>3, <1>4 DEF FlushDueAfter, DeferOrFlush

\* flush_due_after where nothing was scheduled.
LEMMA PendingKept ==
    ASSUME IInv, UNCHANGED <<documents, overlays>>, NEW method, FlushDueAfter(method, pending)
    PROVE IInv'
<1>1. CASE pending = NoBatch
  <2>1. UNCHANGED <<pending, shown>>
    BY <1>1 DEF FlushDueAfter, DeferOrFlush
  <2> QED
    BY <2>1 DEF IInv, ShownPerUri, PendingCovers, ShownIsCurrent, Current
<1>2. CASE pending # NoBatch
  BY <1>2, BatchKept DEF IInv, PendingCovers, Covers
<1> QED
  BY <1>1, <1>2

LEMMA RescheduleKeeps ==
    ASSUME IInv, NEW method, NEW cleared, Reschedule(method, cleared)
    PROVE IInv'
<1> DEFINE batch == Scheduled(cleared, documents', overlays')
<1>1. IsBatch(batch) /\ Covers(batch, documents', overlays')
  BY ScheduledCovers
<1>2. FlushDueAfter(method, batch)
  BY DEF Reschedule
<1> HIDE DEF batch
<1> QED
  BY <1>1, <1>2, BatchKept DEF IInv
-----------------------------------------------------------------------------
LEMMA InitHolds == Init => IInv
<1> SUFFICES ASSUME Init PROVE IInv
  OBVIOUS
<1>1. ShownPerUri
  BY DEF Init, ShownPerUri
<1>2. documents = NotBuilt /\ pending = NoBatch
  BY DEF Init
<1> QED
  BY <1>1, <1>2, NoBatchIsEmpty DEF IInv, PendingCovers, ShownIsCurrent

\* The handlers: a change of the documents schedules a batch, a refusal leaves
\* documents and batch alone.
LEMMA DocumentsKeep ==
    ASSUME IInv, DidOpen \/ DidChange \/ DidClose \/ DidChangeWatchedFiles
    PROVE IInv'
<1>1. ASSUME NEW method, Reject(method) PROVE IInv'
  BY <1>1, PendingKept DEF Reject
<1>2. CASE DidOpen
  BY <1>2, RescheduleKeeps DEF DidOpen
<1>3. CASE DidChange
  BY <1>1, <1>3, RescheduleKeeps DEF DidChange
<1>4. CASE DidClose
  BY <1>1, <1>4, RescheduleKeeps DEF DidClose
<1>5. CASE DidChangeWatchedFiles
  BY <1>5, RescheduleKeeps DEF DidChangeWatchedFiles
<1> QED
  BY <1>2, <1>3, <1>4, <1>5

LEMMA RequestsKeep ==
    ASSUME IInv, NEW method, Answer(method) \/ CancelRequest
    PROVE IInv'
<1>1. CASE Answer(method)
  BY <1>1, PendingKept DEF Answer
<1>2. CASE CancelRequest
  BY <1>2, PendingKept DEF CancelRequest
<1> QED
  BY <1>1, <1>2

\* Flushing shows what waits; with nothing waiting it shows what was shown.
LEMMA FlushPendingKeeps ==
    ASSUME IInv, Flush(pending), UNCHANGED <<documents, overlays>>
    PROVE IInv'
<1>1. CASE pending # NoBatch
  BY <1>1, FlushShows DEF IInv, PendingCovers, Covers
<1>2. CASE pending = NoBatch
  <2>1. pending' = NoBatch /\ shown' = Over(NoBatch.notifications, shown)
    BY <1>2 DEF Flush
  <2>2. \A uri \in DOMAIN shown : uri \in DOMAIN shown' /\ shown'[uri] = shown[uri]
    BY <2>1, NoBatchIsEmpty DEF Over
  <2>3. Current' = Current /\ DOMAIN Current \subseteq Uris
    BY CurrentDomain DEF Current
  <2>4. ShownPerUri'
    BY <2>2 DEF IInv, ShownPerUri
  <2>5. ShownIsCurrent'
    BY <1>2, <2>2, <2>3 DEF IInv, ShownPerUri, ShownIsCurrent
  <2> QED
    BY <2>1, <2>4, <2>5, NoBatchIsEmpty DEF IInv, PendingCovers
<1> QED
  BY <1>1, <1>2

LEMMA FlushesKeep == ASSUME IInv, Stop \/ FlushDueTimeout PROVE IInv'
<1>1. CASE Stop
  BY <1>1, FlushPendingKeeps DEF Stop
<1>2. CASE FlushDueTimeout
  BY <1>2, FlushPendingKeeps DEF FlushDueTimeout
<1> QED
  BY <1>1, <1>2

\* Time passes for a batch that waits, whatever the batch says.
LEMMA TickKeeps == ASSUME IInv, Tick PROVE IInv'
<1>1. pending # NoBatch
  BY DEF Tick, NoBatch
<1>2. IsBatch(pending') /\ pending'.notifications = pending.notifications
  BY DEF Tick, IInv, IsBatch
<1>3. Covers(pending', documents', overlays')
  BY <1>1, <1>2 DEF Tick, IInv, PendingCovers, Covers
<1>4. UNCHANGED shown
  BY DEF Tick
<1>5. ASSUME pending' = NoBatch PROVE DOMAIN Current' = {}
  BY <1>3, <1>5, NoBatchIsEmpty DEF Covers, Current
<1> QED
  BY <1>2, <1>3, <1>4, <1>5 DEF IInv, ShownPerUri, PendingCovers, ShownIsCurrent

LEMMA UntouchedKeeps ==
    ASSUME IInv, UNCHANGED <<shown, overlays, documents, pending>>
    PROVE IInv'
BY DEF IInv, ShownPerUri, PendingCovers, ShownIsCurrent, Current

LEMMA EditorKeeps == ASSUME IInv, Editor PROVE IInv'
<1>1. ASSUME NEW message, Send(message) PROVE IInv'
  BY <1>1, UntouchedKeeps DEF Send
<1>2. \E message : Send(message)
  BY DEF Editor, SendOpen, SendChange, SendOutOfSync, SendClose, FileChange, SendRequest,
         SendCancel, SendLast
<1> QED
  BY <1>1, <1>2

LEMMA StepKeeps == IInv /\ [Next]_vars => IInv'
<1> SUFFICES ASSUME IInv, [Next]_vars PROVE IInv'
  OBVIOUS
<1>1. CASE DropCanceled
  BY <1>1, UntouchedKeeps DEF DropCanceled
<1>2. CASE Fail
  BY <1>2, UntouchedKeeps DEF Fail
<1>3. CASE UNCHANGED vars
  BY <1>3, UntouchedKeeps DEF vars
<1>4. CASE Answer("hover") \/ Answer("executeCommand") \/ CancelRequest
  BY <1>4, RequestsKeep
<1> QED
  BY <1>1, <1>2, <1>3, <1>4, DocumentsKeep, FlushesKeep, TickKeeps, EditorKeeps DEF Next, Serve
-----------------------------------------------------------------------------
\* The inductive invariant: a batch that waits says what the documents say, and
\* with none waiting the editor shows it.
THEOREM SchedulerInvariant == Spec => []IInv
<1>1. Init => IInv
  BY InitHolds
<1>2. IInv /\ [Next]_vars => IInv'
  BY StepKeeps
<1> QED
  BY <1>1, <1>2, PTL DEF Spec

\* The diagnostics of older text never wait to be shown: schedule_diagnostics
\* replaces the batch, and a handler that fails changes no document.
THEOREM WaitingIsCurrent == Spec => []NoStaleBatch
<1>1. IInv => NoStaleBatch
  BY DEF IInv, PendingCovers, Covers, NoStaleBatch, Current
<1> QED
  BY <1>1, SchedulerInvariant, PTL

\* flush_all, flush_due_after and flush_due lose nothing: with no batch waiting,
\* the editor shows the diagnostics of every document the server knows.
THEOREM NothingIsLost == Spec => []ShownIsCurrent
<1>1. IInv => ShownIsCurrent
  BY DEF IInv
<1> QED
  BY <1>1, SchedulerInvariant, PTL
-----------------------------------------------------------------------------
(* The types: what the channel carries, and what a batch holds. *)

Messages ==
    [method : {"didOpen"}, uri : Uris, text : Texts]
        \cup [method : {"didChange"}, uri : Uris, text : Texts \cup {"out of sync"}]
        \cup [method : {"didClose"}, uri : Uris]
        \cup [method : {"didChangeWatchedFiles"}, uri : Uris, deleted : BOOLEAN]
        \cup [method : {"hover", "executeCommand", "cancelRequest"}, id : Ids]
        \cup [method : {"exit", "end of input", "unreadable"}]

Notifications == UNION {[uris -> Texts] : uris \in SUBSET Uris}

TypeInv == TypeOK /\ channel \in Seq(Messages)

LEMMA MessageFields ==
    ASSUME NEW m \in Messages
    PROVE /\ m.method \in DocumentMethods => m.uri \in Uris
          /\ m.method = "didOpen" => m.text \in Texts
          /\ m.method = "didChange" => m.text \in Texts \cup {"out of sync"}
          /\ m.method \in {"hover", "executeCommand", "cancelRequest"} => m.id \in Ids
BY DEF Messages, DocumentMethods

LEMMA NotificationsAre ==
    ASSUME NEW uris \in SUBSET Uris, NEW f \in [uris -> Texts]
    PROVE f \in Notifications
BY DEF Notifications

LEMMA DomainOfNotifications ==
    ASSUME NEW f \in Notifications
    PROVE /\ DOMAIN f \subseteq Uris
          /\ f \in [DOMAIN f -> Texts]
BY DEF Notifications

LEMMA OverIsNotifications ==
    ASSUME NEW f \in Notifications, NEW g \in Notifications
    PROVE Over(f, g) \in Notifications
<1> DEFINE both == DOMAIN f \cup DOMAIN g
<1>1. both \in SUBSET Uris
  BY DomainOfNotifications
<1>2. ASSUME NEW uri \in both
      PROVE (IF uri \in DOMAIN f THEN f[uri] ELSE g[uri]) \in Texts
  BY DomainOfNotifications
<1>3. Over(f, g) \in [both -> Texts]
  BY <1>2 DEF Over
<1> QED
  BY <1>1, <1>3, NotificationsAre

Buffers == [Uris -> Texts \cup {NotOpen}]
Documents == [ProjectUris -> Texts \cup {Absent}]

LEMMA PublishedIsNotifications ==
    ASSUME NEW docs \in Documents, NEW buffers \in Buffers
    PROVE Published(docs, buffers) \in Notifications
<1> DEFINE known == {u \in ProjectUris : docs[u] # Absent}
           open == {u \in Uris : buffers[u] # NotOpen}
<1>1. [uri \in known |-> docs[uri]] \in Notifications
  <2>1. known \in SUBSET Uris
    BY ServerAssumption
  <2>2. [uri \in known |-> docs[uri]] \in [known -> Texts]
    BY DEF Documents
  <2> QED
    BY <2>1, <2>2, NotificationsAre
<1>2. [uri \in open |-> "clean"] \in Notifications
  <2>1. open \in SUBSET Uris /\ [uri \in open |-> "clean"] \in [open -> Texts]
    BY DEF Texts
  <2> QED
    BY <2>1, NotificationsAre
<1> QED
  BY <1>1, <1>2, OverIsNotifications DEF Published

LEMMA ClearedIsNotifications ==
    /\ Nothing \in Notifications
    /\ \A uri \in Uris : Cleared(uri) \in Notifications
<1>1. Nothing \in Notifications
  <2>1. Nothing \in [{} -> Texts]
    BY DEF Nothing
  <2>2. {} \in SUBSET Uris
    OBVIOUS
  <2> QED
    BY <2>1, <2>2, NotificationsAre
<1>2. ASSUME NEW uri \in Uris PROVE Cleared(uri) \in Notifications
  <2>1. Cleared(uri) \in [{uri} -> Texts]
    BY DEF Cleared, Texts
  <2>2. {uri} \in SUBSET Uris
    OBVIOUS
  <2> QED
    BY <2>1, <2>2, NotificationsAre
<1> QED
  BY <1>1, <1>2

LEMMA BatchFields ==
    /\ \A batch \in Batches :
        /\ batch.wait \in 0 .. Debounce
        /\ batch.deferrals \in 0 .. MaxDeferrals
        /\ batch.notifications \in Notifications
    /\ NoBatch \in Batches
<1>1. NoBatch.notifications \in Notifications
  BY ClearedIsNotifications DEF NoBatch
<1>2. NoBatch \in Batches
  BY <1>1, ServerAssumption DEF Batches, Notifications, NoBatch
<1> QED
  BY <1>2 DEF Batches, Notifications

LEMMA ScheduledIsBatch ==
    ASSUME NEW cleared \in Notifications, NEW docs \in Documents,
           NEW buffers \in Buffers
    PROVE Scheduled(cleared, docs, buffers) \in Batches
BY PublishedIsNotifications, OverIsNotifications, ServerAssumption
   DEF Scheduled, Batches, Notifications

LEMMA FlushTypes ==
    ASSUME NEW batch \in Batches, shown \in [Uris -> Texts], Flush(batch)
    PROVE pending' \in Batches /\ shown' \in [Uris -> Texts]
<1>1. batch.notifications \in Notifications
  BY BatchFields
<1>2. DOMAIN batch.notifications \subseteq Uris /\ batch.notifications \in [DOMAIN batch.notifications -> Texts]
  BY <1>1, DomainOfNotifications
<1>3. Over(batch.notifications, shown) \in [Uris -> Texts]
  BY <1>2 DEF Over
<1> QED
  BY <1>3, BatchFields DEF Flush

\* flush_due_after keeps the types: deferrals stop at their bound.
LEMMA FlushDueTypes ==
    ASSUME NEW method, NEW batch \in Batches, shown \in [Uris -> Texts], FlushDueAfter(method, batch)
    PROVE pending' \in Batches /\ shown' \in [Uris -> Texts]
<1>1. CASE pending' = batch /\ UNCHANGED shown
  BY <1>1
<1>2. CASE /\ pending' = [batch EXCEPT !.deferrals = @ + 1]
           /\ batch.deferrals < MaxDeferrals
           /\ UNCHANGED shown
  <2>1. batch.deferrals + 1 \in 0 .. MaxDeferrals
    BY <1>2, BatchFields, ServerAssumption
  <2>2. [batch EXCEPT !.deferrals = batch.deferrals + 1] \in Batches
    BY <2>1 DEF Batches
  <2> QED
    BY <1>2, <2>2
<1>3. CASE Flush(batch)
  BY <1>3, FlushTypes
<1> QED
  BY <1>1, <1>2, <1>3 DEF FlushDueAfter, DeferOrFlush

LEMMA UpdatedIsDocuments ==
    ASSUME TypeInv, NEW uri, NEW buffers \in Buffers
    PROVE Updated(uri, buffers) \in Documents
<1> SUFFICES ASSUME NEW project \in ProjectUris
             PROVE (IF documents = NotBuilt \/ project = uri
                    THEN TextOf(project, buffers) ELSE documents[project]) \in Texts \cup {Absent}
  BY DEF Updated, Documents
<1>1. TextOf(project, buffers) \in Texts \cup {Absent}
  BY ServerAssumption DEF TextOf, TypeInv, TypeOK, Buffers
<1>2. documents # NotBuilt => documents[project] \in Texts \cup {Absent}
  BY DEF TypeInv, TypeOK
<1> QED
  BY <1>1, <1>2

\* A message taken off the channel leaves a channel of messages.
LEMMA TakeTypes ==
    ASSUME TypeInv, NEW method, Take(method)
    PROVE /\ Incoming \in Messages
          /\ channel' \in Seq(Messages)
          /\ Len(channel') <= MaxChannel
          /\ disk' = disk /\ editor' = editor
<1> USE DEF TypeInv, TypeOK, Take, Incoming
<1>1. channel \in Seq(Messages) /\ channel # << >>
  OBVIOUS
<1>2. Len(channel) \in Nat /\ Len(channel) >= 1 /\ Len(Tail(channel)) = Len(channel) - 1
  BY <1>1
<1>3. channel[1] \in Messages /\ Tail(channel) \in Seq(Messages)
  BY <1>1, <1>2
<1> QED
  BY <1>2, <1>3, ServerAssumption

\* A handler that was given a message keeps the types if what it writes has them.
LEMMA HandledTypes ==
    ASSUME TypeInv, NEW method, Take(method),
           asked' \in [Ids -> {NoRequest} \cup [uri : Uris, text : Texts]],
           shown' \in [Uris -> Texts],
           overlays' \in Buffers,
           documents' \in {NotBuilt} \cup Documents,
           pending' \in Batches,
           canceled' \subseteq Ids,
           status' \in {"serving", "stopped", "failed"}
    PROVE TypeInv'
BY TakeTypes DEF TypeInv, TypeOK, Buffers, Documents

LEMMA RescheduleTypes ==
    ASSUME TypeInv, NEW method, Take(method), NEW cleared \in Notifications,
           overlays' \in Buffers, documents' \in Documents, Reschedule(method, cleared)
    PROVE TypeInv'
<1> DEFINE batch == Scheduled(cleared, documents', overlays')
<1>1. batch \in Batches
  BY ScheduledIsBatch
<1>2. FlushDueAfter(method, batch) /\ UNCHANGED <<asked, canceled, status>>
  BY DEF Reschedule
<1> HIDE DEF batch
<1>3. pending' \in Batches /\ shown' \in [Uris -> Texts]
  BY <1>1, <1>2, FlushDueTypes DEF TypeInv, TypeOK
<1> QED
  BY <1>2, <1>3, HandledTypes DEF TypeInv, TypeOK

LEMMA RejectTypes ==
    ASSUME TypeInv, NEW method, Take(method), Reject(method)
    PROVE TypeInv'
<1>1. pending' \in Batches /\ shown' \in [Uris -> Texts]
  BY FlushDueTypes DEF TypeInv, TypeOK, Reject
<1> QED
  BY <1>1, HandledTypes DEF TypeInv, TypeOK, Reject, Buffers, Documents

LEMMA DocumentsTypes ==
    ASSUME TypeInv, DidOpen \/ DidChange \/ DidClose \/ DidChangeWatchedFiles
    PROVE TypeInv'
<1>1. ASSUME NEW method \in DocumentMethods, Take(method) PROVE Incoming.uri \in Uris
  BY <1>1, TakeTypes, MessageFields DEF Take
<1>2. overlays \in Buffers
  BY DEF TypeInv, TypeOK, Buffers
<1>3. CASE DidOpen
  <2>1. Take("didOpen") /\ Incoming.method = "didOpen"
    BY <1>3 DEF DidOpen, Take
  <2>2. Incoming.text \in Texts
    BY <2>1, TakeTypes, MessageFields
  <2>3. overlays' \in Buffers
    BY <1>2, <1>3, <2>2 DEF DidOpen, Buffers
  <2>4. documents' \in Documents
    BY <1>3, <2>3, UpdatedIsDocuments DEF DidOpen
  <2> QED
    BY <1>3, <2>1, <2>3, <2>4, ClearedIsNotifications, RescheduleTypes DEF DidOpen
<1>4. CASE DidChange
  <2>1. Take("didChange") /\ Incoming.method = "didChange"
    BY <1>4 DEF DidChange, Take
  <2>2. CASE Reject("didChange")
    BY <2>1, <2>2, RejectTypes
  <2>3. CASE /\ Incoming.text # "out of sync"
             /\ overlays' = [overlays EXCEPT ![Incoming.uri] = Incoming.text]
             /\ documents' = Updated(Incoming.uri, overlays')
             /\ Reschedule("didChange", Nothing)
    <3>1. Incoming.text \in Texts
      BY <2>1, <2>3, TakeTypes, MessageFields
    <3>2. overlays' \in Buffers
      BY <1>2, <2>3, <3>1 DEF Buffers
    <3>3. documents' \in Documents
      BY <2>3, <3>2, UpdatedIsDocuments
    <3> QED
      BY <2>1, <2>3, <3>2, <3>3, ClearedIsNotifications, RescheduleTypes
  <2> QED
    BY <1>4, <2>2, <2>3 DEF DidChange
<1>5. CASE DidClose
  <2>1. Take("didClose")
    BY <1>5 DEF DidClose
  <2>2. CASE Reject("didClose")
    BY <2>1, <2>2, RejectTypes
  <2>3. CASE /\ overlays' = [overlays EXCEPT ![Incoming.uri] = NotOpen]
             /\ documents' = Updated(Incoming.uri, overlays')
             /\ Reschedule("didClose", Cleared(Incoming.uri))
    <3>1. overlays' \in Buffers
      BY <1>2, <2>3 DEF Buffers
    <3>2. documents' \in Documents
      BY <2>3, <3>1, UpdatedIsDocuments
    <3>3. Cleared(Incoming.uri) \in Notifications
      BY <1>1, <2>1, ClearedIsNotifications DEF DocumentMethods
    <3> QED
      BY <2>1, <2>3, <3>1, <3>2, <3>3, RescheduleTypes
  <2> QED
    BY <1>5, <2>2, <2>3 DEF DidClose
<1>6. CASE DidChangeWatchedFiles
  <2>1. Take("didChangeWatchedFiles") /\ overlays' = overlays
    BY <1>6 DEF DidChangeWatchedFiles
  <2>2. documents' \in Documents
    BY <1>2, <1>6, UpdatedIsDocuments DEF DidChangeWatchedFiles
  <2>3. Cleared(Incoming.uri) \in Notifications /\ Nothing \in Notifications
    BY <1>1, <2>1, ClearedIsNotifications DEF DocumentMethods
  <2> QED
    BY <1>2, <1>6, <2>1, <2>2, <2>3, RescheduleTypes DEF DidChangeWatchedFiles
<1> QED
  BY <1>3, <1>4, <1>5, <1>6

LEMMA RequestsTypes ==
    ASSUME TypeInv,
           \/ DropCanceled \/ CancelRequest
           \/ Answer("hover") \/ Answer("executeCommand")
    PROVE TypeInv'
<1>1. ASSUME NEW method \in {"hover", "executeCommand", "cancelRequest"}, Take(method)
      PROVE Incoming.id \in Ids
  BY <1>1, TakeTypes, MessageFields DEF Take
<1>2. CASE DropCanceled
  BY <1>2, HandledTypes DEF DropCanceled, TypeInv, TypeOK, Buffers, Documents
<1>3. ASSUME NEW method, FlushDueAfter(method, pending)
      PROVE pending' \in Batches /\ shown' \in [Uris -> Texts]
  BY <1>3, FlushDueTypes DEF TypeInv, TypeOK
<1>4. CASE CancelRequest
  <2>1. Take("cancelRequest") /\ canceled' \subseteq Ids
    BY <1>1, <1>4 DEF CancelRequest, TypeInv, TypeOK
  <2> QED
    BY <1>3, <1>4, <2>1, HandledTypes DEF CancelRequest, TypeInv, TypeOK, Buffers, Documents
<1>5. ASSUME NEW method \in {"hover", "executeCommand"}, Answer(method) PROVE TypeInv'
  <2>1. asked' \in [Ids -> {NoRequest} \cup [uri : Uris, text : Texts]]
    BY <1>5 DEF Answer, TypeInv, TypeOK
  <2>2. Take(method) /\ pending' \in Batches /\ shown' \in [Uris -> Texts]
    BY <1>3, <1>5 DEF Answer
  <2> QED
    BY <1>5, <2>1, <2>2, HandledTypes DEF Answer, TypeInv, TypeOK, Buffers, Documents
<1> QED
  BY <1>2, <1>4, <1>5

LEMMA LoopTypes ==
    ASSUME TypeInv, Stop \/ Fail \/ FlushDueTimeout \/ Tick
    PROVE TypeInv'
<1>1. ASSUME Flush(pending) PROVE pending' \in Batches /\ shown' \in [Uris -> Texts]
  BY <1>1, FlushTypes DEF TypeInv, TypeOK
<1>2. CASE Stop
  <2>1. \E method : Take(method)
    BY <1>2 DEF Stop
  <2> QED
    BY <1>1, <1>2, <2>1, HandledTypes DEF Stop, TypeInv, TypeOK, Buffers, Documents
<1>3. CASE Fail
  BY <1>3, HandledTypes DEF Fail, TypeInv, TypeOK, Buffers, Documents
<1>4. CASE FlushDueTimeout
  BY <1>1, <1>4 DEF FlushDueTimeout, TypeInv, TypeOK, client
<1>5. CASE Tick
  <2>1. pending \in Batches /\ pending.wait > 0
    BY <1>5 DEF Tick, TypeInv, TypeOK
  <2>2. pending.wait - 1 \in 0 .. Debounce
    BY <2>1, BatchFields, ServerAssumption
  <2>3. [pending EXCEPT !.wait = pending.wait - 1] \in Batches
    BY <2>1, <2>2 DEF Batches
  <2>4. pending' \in Batches
    BY <1>5, <2>3 DEF Tick
  <2> QED
    BY <1>5, <2>4 DEF Tick, TypeInv, TypeOK, client
<1> QED
  BY <1>2, <1>3, <1>4, <1>5

\* What the editor sends is a message, and the channel has room for it.
LEMMA SendTypes ==
    ASSUME TypeInv, NEW message \in Messages, Send(message),
           disk' \in Documents, editor' \in Buffers,
           asked' \in [Ids -> {NoRequest} \cup [uri : Uris, text : Texts]]
    PROVE TypeInv'
<1>1. channel' \in Seq(Messages) /\ Len(channel') <= MaxChannel
  <2>1. channel \in Seq(Messages) /\ Len(channel) < MaxChannel /\ channel' = Append(channel, message)
    BY DEF TypeInv, Send
  <2>2. Len(channel) \in Nat /\ Len(channel') = Len(channel) + 1
    BY <2>1
  <2> QED
    BY <2>1, <2>2, ServerAssumption
<1> QED
  BY <1>1 DEF TypeInv, TypeOK, Send, Buffers, Documents

LEMMA EditorTypes == ASSUME TypeInv, Editor PROVE TypeInv'
<1> USE DEF TypeInv, TypeOK, Buffers, Documents, client
<1>1. ASSUME NEW uri \in Uris, NEW text \in Texts, SendOpen(uri, text) PROVE TypeInv'
  <2>1. [method |-> "didOpen", uri |-> uri, text |-> text] \in Messages
    BY DEF Messages
  <2> QED
    BY <1>1, <2>1, SendTypes DEF SendOpen
<1>2. ASSUME NEW uri \in Uris, NEW text \in Texts, SendChange(uri, text) PROVE TypeInv'
  <2>1. [method |-> "didChange", uri |-> uri, text |-> text] \in Messages
    BY DEF Messages
  <2> QED
    BY <1>2, <2>1, SendTypes DEF SendChange
<1>3. ASSUME NEW uri \in Uris, SendOutOfSync(uri) PROVE TypeInv'
  <2>1. [method |-> "didChange", uri |-> uri, text |-> "out of sync"] \in Messages
    BY DEF Messages
  <2> QED
    BY <1>3, <2>1, SendTypes DEF SendOutOfSync
<1>4. ASSUME NEW uri \in Uris, SendClose(uri) PROVE TypeInv'
  <2>1. [method |-> "didClose", uri |-> uri] \in Messages
    BY DEF Messages
  <2> QED
    BY <1>4, <2>1, SendTypes DEF SendClose
<1>5. ASSUME NEW uri \in Uris, NEW text \in Texts \cup {Absent}, FileChange(uri, text) PROVE TypeInv'
  <2>1. [method |-> "didChangeWatchedFiles", uri |-> uri, deleted |-> text = Absent] \in Messages
    BY DEF Messages
  <2> QED
    BY <1>5, <2>1, SendTypes DEF FileChange
<1>6. ASSUME NEW id \in Ids, NEW uri \in Uris, NEW method \in {"hover", "executeCommand"},
             SendRequest(id, method, uri)
      PROVE TypeInv'
  <2>1. [method |-> method, id |-> id] \in Messages
    BY DEF Messages
  <2>2. editor[uri] \in Texts
    BY <1>6 DEF SendRequest
  <2>3. asked' \in [Ids -> {NoRequest} \cup [uri : Uris, text : Texts]]
    BY <1>6, <2>2 DEF SendRequest
  <2> QED
    BY <1>6, <2>1, <2>3, SendTypes DEF SendRequest
<1>7. ASSUME NEW id \in Ids, SendCancel(id) PROVE TypeInv'
  <2>1. [method |-> "cancelRequest", id |-> id] \in Messages
    BY DEF Messages
  <2> QED
    BY <1>7, <2>1, SendTypes DEF SendCancel
<1>8. ASSUME NEW method \in {"exit", "end of input", "unreadable"}, SendLast(method) PROVE TypeInv'
  <2>1. [method |-> method] \in Messages
    BY DEF Messages
  <2> QED
    BY <1>8, <2>1, SendTypes DEF SendLast
<1> QED
  BY <1>1, <1>2, <1>3, <1>4, <1>5, <1>6, <1>7, <1>8 DEF Editor

LEMMA InitTypes == Init => TypeInv
<1> SUFFICES ASSUME Init PROVE TypeInv
  OBVIOUS
<1>1. pending \in Batches
  BY BatchFields DEF Init
<1>2. channel \in Seq(Messages) /\ Len(channel) <= MaxChannel
  BY ServerAssumption DEF Init
<1>3. shown \in [Uris -> Texts]
  BY DEF Init, Texts
<1> QED
  BY <1>1, <1>2, <1>3 DEF Init, TypeInv, TypeOK

LEMMA StepTypes == TypeInv /\ [Next]_vars => TypeInv'
<1> SUFFICES ASSUME TypeInv, [Next]_vars PROVE TypeInv'
  OBVIOUS
<1>1. CASE UNCHANGED vars
  BY <1>1 DEF vars, TypeInv, TypeOK
<1> QED
  BY <1>1, DocumentsTypes, RequestsTypes, LoopTypes, EditorTypes DEF Next, Serve
-----------------------------------------------------------------------------
\* The types of the loop's state, for every number of documents and ids: whatever
\* the editor sends and however the batches come and go, the deferrals of a batch
\* stay within MAX_HIGH_PRIORITY_DEFERRALS and its wait within the debounce.
THEOREM ChannelTyped == Spec => []TypeInv
<1>1. Init => TypeInv
  BY InitTypes
<1>2. TypeInv /\ [Next]_vars => TypeInv'
  BY StepTypes
<1> QED
  BY <1>1, <1>2, PTL DEF Spec

\* The type invariant of the runs.
THEOREM TypeCorrect == Spec => []TypeOK
<1>1. TypeInv => TypeOK
  BY DEF TypeInv
<1> QED
  BY <1>1, ChannelTyped, PTL
-----------------------------------------------------------------------------
(* The order of the channel is that of the editor. *)

\* A message that gives a document another text, or closes it.
Edits(message, uri) ==
    /\ message.method \in {"didOpen", "didChange", "didClose"}
    /\ message.uri = uri
    /\ message.method = "didChange" => message.text # "out of sync"

Content(message) == IF message.method = "didClose" THEN NotOpen ELSE message.text

Requests(message, id) == message.method \in {"hover", "executeCommand"} /\ message.id = id

\* Once the first k messages of the queue are handled, the buffer of the document
\* holds this text: that of the last of them to edit it, or the one it has now.
Holds(queue, buffers, k, uri, text) ==
    \/ /\ text = buffers[uri]
       /\ \A j \in 1 .. k : ~Edits(queue[j], uri)
    \/ \E i \in 1 .. k :
        /\ Edits(queue[i], uri)
        /\ text = Content(queue[i])
        /\ \A j \in i + 1 .. k : ~Edits(queue[j], uri)

\* What the server will hold is what the editor holds.
BuffersFollow == \A uri \in Uris : Holds(channel, overlays, Len(channel), uri, editor[uri])

\* A change will find its document open.
ChangesFollow ==
    \A i \in 1 .. Len(channel) :
        (channel[i].method = "didChange" /\ channel[i].text # "out of sync") =>
            \E text \in Texts : Holds(channel, overlays, i - 1, channel[i].uri, text)

\* A request will find the text it was asked about.
RequestsFollow ==
    \A i \in 1 .. Len(channel), id \in Ids :
        Requests(channel[i], id) =>
            /\ asked[id] # NoRequest
            /\ Holds(channel, overlays, i - 1, asked[id].uri, asked[id].text)

OneRequestPerId ==
    \A i, j \in 1 .. Len(channel), id \in Ids :
        (Requests(channel[i], id) /\ Requests(channel[j], id)) => i = j

\* The workspace has the open documents as the loop has them.
DocumentsFollow == \A uri \in ProjectUris : overlays[uri] # NotOpen => documents[uri] = overlays[uri]

Ordered == BuffersFollow /\ ChangesFollow /\ RequestsFollow /\ OneRequestPerId /\ DocumentsFollow
-----------------------------------------------------------------------------
LEMMA AppendHolds ==
    ASSUME NEW queue \in Seq(Messages), NEW m \in Messages, NEW buffers, NEW uri, NEW text,
           NEW k \in 0 .. Len(queue), Holds(queue, buffers, k, uri, text)
    PROVE Holds(Append(queue, m), buffers, k, uri, text)
<1>1. \A j \in 1 .. k : Append(queue, m)[j] = queue[j]
  OBVIOUS
<1> QED
  BY <1>1 DEF Holds

\* The queue grows by an edit, or by a message that leaves the document alone.
LEMMA AppendEdit ==
    ASSUME NEW queue \in Seq(Messages), NEW m \in Messages, NEW buffers, NEW uri, Edits(m, uri)
    PROVE Holds(Append(queue, m), buffers, Len(queue) + 1, uri, Content(m))
<1>1. Append(queue, m)[Len(queue) + 1] = m /\ Len(queue) \in Nat
  OBVIOUS
<1>2. Len(queue) + 1 \in 1 .. Len(queue) + 1 /\ (Len(queue) + 1) + 1 .. Len(queue) + 1 = {}
  BY <1>1
<1> QED
  BY <1>1, <1>2 DEF Holds

LEMMA AppendOther ==
    ASSUME NEW queue \in Seq(Messages), NEW m \in Messages, NEW buffers, NEW uri, NEW text,
           ~Edits(m, uri), Holds(queue, buffers, Len(queue), uri, text)
    PROVE Holds(Append(queue, m), buffers, Len(queue) + 1, uri, text)
<1> DEFINE longer == Append(queue, m)
<1>1. /\ Len(queue) \in Nat
      /\ longer[Len(queue) + 1] = m
      /\ \A j \in 1 .. Len(queue) : longer[j] = queue[j]
  OBVIOUS
<1>2. \A j \in 1 .. Len(queue) + 1 : j \in 1 .. Len(queue) \/ j = Len(queue) + 1
  BY <1>1
<1> HIDE DEF longer
<1>3. CASE text = buffers[uri] /\ \A j \in 1 .. Len(queue) : ~Edits(queue[j], uri)
  <2>1. \A j \in 1 .. Len(queue) + 1 : ~Edits(longer[j], uri)
    BY <1>1, <1>2, <1>3
  <2> QED
    BY <1>3, <2>1 DEF Holds, longer
<1>4. ASSUME NEW i \in 1 .. Len(queue), Edits(queue[i], uri), text = Content(queue[i]),
             \A j \in i + 1 .. Len(queue) : ~Edits(queue[j], uri)
      PROVE Holds(longer, buffers, Len(queue) + 1, uri, text)
  <2>1. i \in 1 .. Len(queue) + 1
    BY <1>1
  <2>2. \A j \in i + 1 .. Len(queue) + 1 : j \in i + 1 .. Len(queue) \/ j = Len(queue) + 1
    BY <1>1
  <2>3. \A j \in i + 1 .. Len(queue) : longer[j] = queue[j]
    BY <1>1
  <2>4. \A j \in i + 1 .. Len(queue) + 1 : ~Edits(longer[j], uri)
    BY <1>1, <1>4, <2>2, <2>3
  <2>5. longer[i] = queue[i]
    BY <1>1
  <2> QED
    BY <1>4, <2>1, <2>4, <2>5 DEF Holds
<1> QED
  BY <1>3, <1>4 DEF Holds, longer

\* The queue loses its head, and the buffers have taken it in.
LEMMA TailHolds ==
    ASSUME NEW queue \in Seq(Messages), queue # << >>, NEW k \in 1 .. Len(queue),
           NEW before, NEW after, NEW uri, NEW text,
           Holds(queue, before, k, uri, text),
           after[uri] = IF Edits(queue[1], uri) THEN Content(queue[1]) ELSE before[uri]
    PROVE Holds(Tail(queue), after, k - 1, uri, text)
<1> DEFINE rest == Tail(queue)
<1>1. \A j \in 1 .. k - 1 : j + 1 \in 1 .. k /\ rest[j] = queue[j + 1]
  OBVIOUS
<1>2. 1 \in 1 .. k /\ k - 1 \in Nat /\ k \in Nat
  OBVIOUS
<1> HIDE DEF rest
<1>3. CASE text = before[uri] /\ \A j \in 1 .. k : ~Edits(queue[j], uri)
  BY <1>1, <1>2, <1>3 DEF Holds, rest
<1>4. ASSUME NEW i \in 1 .. k, Edits(queue[i], uri), text = Content(queue[i]),
             \A j \in i + 1 .. k : ~Edits(queue[j], uri)
      PROVE Holds(rest, after, k - 1, uri, text)
  <2>1. CASE i = 1
    <3>1. \A j \in 1 .. k - 1 : j + 1 \in i + 1 .. k
      BY <1>2, <2>1
    <3>2. \A j \in 1 .. k - 1 : ~Edits(rest[j], uri)
      BY <1>1, <1>4, <3>1
    <3> QED
      BY <1>4, <2>1, <3>2 DEF Holds
  <2>2. CASE i # 1
    <3>1. i - 1 \in 1 .. k - 1 /\ (i - 1) + 1 = i
      BY <1>2, <2>2
    <3>2. rest[i - 1] = queue[i]
      BY <1>1, <3>1
    <3>3. \A j \in (i - 1) + 1 .. k - 1 : j \in 1 .. k - 1 /\ j + 1 \in i + 1 .. k
      BY <1>2, <3>1
    <3>4. \A j \in (i - 1) + 1 .. k - 1 : ~Edits(rest[j], uri)
      BY <1>1, <1>4, <3>3
    <3> QED
      BY <1>4, <3>1, <3>2, <3>4 DEF Holds
  <2> QED
    BY <2>1, <2>2
<1> QED
  BY <1>3, <1>4 DEF Holds, rest

LEMMA HoldsNow ==
    ASSUME NEW queue, NEW buffers, NEW uri, NEW text
    PROVE Holds(queue, buffers, 0, uri, text) <=> text = buffers[uri]
BY DEF Holds
-----------------------------------------------------------------------------
\* What the editor may send: its buffer of a document changes as the message says,
\* and a request is new and about the text it has.
Matches(message) ==
    /\ \A uri \in Uris :
        editor'[uri] = IF Edits(message, uri) THEN Content(message) ELSE editor[uri]
    /\ (message.method = "didChange" /\ message.text # "out of sync") => editor[message.uri] \in Texts
    /\ \A id \in Ids :
        \/ ~Requests(message, id) /\ asked'[id] = asked[id]
        \/ /\ asked[id] = NoRequest
           /\ asked'[id] # NoRequest
           /\ asked'[id].uri \in Uris
           /\ asked'[id].text = editor[asked'[id].uri]

LEMMA SendOrdered ==
    ASSUME TypeInv, Ordered, NEW message \in Messages, Send(message), Matches(message)
    PROVE Ordered'
<1>1. /\ channel \in Seq(Messages)
      /\ channel' = Append(channel, message)
      /\ UNCHANGED <<overlays, documents>>
  BY DEF TypeInv, Send
<1>2. /\ Len(channel) \in Nat
      /\ Len(channel') = Len(channel) + 1
      /\ channel'[Len(channel) + 1] = message
      /\ (Len(channel) + 1) - 1 = Len(channel)
      /\ \A i \in 1 .. Len(channel) : channel'[i] = channel[i] /\ i - 1 \in 0 .. Len(channel)
      /\ \A i \in 1 .. Len(channel') : i \in 1 .. Len(channel) \/ i = Len(channel) + 1
  BY <1>1
<1>3. ASSUME NEW k \in 0 .. Len(channel), NEW uri, NEW text, Holds(channel, overlays, k, uri, text)
      PROVE Holds(channel', overlays', k, uri, text)
  BY <1>1, <1>3, AppendHolds
<1>4. \A uri \in Uris : Holds(channel', overlays', Len(channel), uri, editor[uri])
  BY <1>2, <1>3 DEF Ordered, BuffersFollow
<1>5. BuffersFollow'
  <2> SUFFICES ASSUME NEW uri \in Uris
               PROVE Holds(channel', overlays', Len(channel'), uri, editor'[uri])
    BY DEF BuffersFollow
  <2>1. CASE Edits(message, uri)
    BY <1>1, <1>2, <2>1, AppendEdit DEF Matches
  <2>2. CASE ~Edits(message, uri)
    <3>1. Holds(channel, overlays, Len(channel), uri, editor[uri])
      BY DEF Ordered, BuffersFollow
    <3>2. editor'[uri] = editor[uri]
      BY <2>2 DEF Matches
    <3> QED
      BY <1>1, <1>2, <2>2, <3>1, <3>2, AppendOther
  <2> QED
    BY <2>1, <2>2
<1>6. ChangesFollow'
  <2> SUFFICES ASSUME NEW i \in 1 .. Len(channel'),
                      channel'[i].method = "didChange", channel'[i].text # "out of sync"
               PROVE \E text \in Texts : Holds(channel', overlays', i - 1, channel'[i].uri, text)
    BY DEF ChangesFollow
  <2>1. CASE i \in 1 .. Len(channel)
    <3>1. PICK text \in Texts : Holds(channel, overlays, i - 1, channel[i].uri, text)
      BY <1>2, <2>1 DEF Ordered, ChangesFollow
    <3> QED
      BY <1>2, <1>3, <2>1, <3>1
  <2>2. CASE i = Len(channel) + 1
    <3>1. channel'[i] = message /\ i - 1 = Len(channel)
      BY <1>2, <2>2
    <3>2. message.uri \in Uris /\ editor[message.uri] \in Texts
      BY <3>1, MessageFields DEF DocumentMethods, Matches
    <3> QED
      BY <1>4, <3>1, <3>2
  <2> QED
    BY <1>2, <2>1, <2>2
<1>7. ASSUME NEW i \in 1 .. Len(channel), NEW id \in Ids, Requests(channel[i], id)
      PROVE asked[id] # NoRequest /\ asked'[id] = asked[id] /\ ~Requests(message, id)
  BY <1>7 DEF Ordered, RequestsFollow, Matches
<1>8. RequestsFollow'
  <2> SUFFICES ASSUME NEW i \in 1 .. Len(channel'), NEW id \in Ids, Requests(channel'[i], id)
               PROVE /\ asked'[id] # NoRequest
                     /\ Holds(channel', overlays', i - 1, asked'[id].uri, asked'[id].text)
    BY DEF RequestsFollow, Requests
  <2>1. CASE i \in 1 .. Len(channel)
    <3>1. Requests(channel[i], id) /\ i - 1 \in 0 .. Len(channel)
      BY <1>2, <2>1
    <3> QED
      BY <1>3, <1>7, <2>1, <3>1 DEF Ordered, RequestsFollow
  <2>2. CASE i = Len(channel) + 1
    <3>1. Requests(message, id) /\ i - 1 = Len(channel)
      BY <1>2, <2>2
    <3>2. /\ asked'[id] # NoRequest
          /\ asked'[id].uri \in Uris
          /\ asked'[id].text = editor[asked'[id].uri]
      BY <3>1 DEF Matches
    <3> QED
      BY <1>4, <3>1, <3>2
  <2> QED
    BY <1>2, <2>1, <2>2
<1>9. OneRequestPerId'
  <2> SUFFICES ASSUME NEW i \in 1 .. Len(channel'), NEW j \in 1 .. Len(channel'), NEW id \in Ids,
                      Requests(channel'[i], id), Requests(channel'[j], id)
               PROVE i = j
    BY DEF OneRequestPerId, Requests
  <2> QED
    BY <1>2, <1>7 DEF Ordered, OneRequestPerId
<1>10. DocumentsFollow'
  BY <1>1 DEF Ordered, DocumentsFollow
<1> QED
  BY <1>5, <1>6, <1>8, <1>9, <1>10 DEF Ordered
-----------------------------------------------------------------------------
\* What a handler does with the message it takes: the buffers change as the message
\* says, and no other request's answer is given.
Handles ==
    /\ channel # << >>
    /\ channel' = Tail(channel)
    /\ editor' = editor
    /\ \A uri \in Uris :
        overlays'[uri] = IF Edits(Incoming, uri) THEN Content(Incoming) ELSE overlays[uri]
    /\ \A id \in Ids : Requests(Incoming, id) \/ asked'[id] = asked[id]

LEMMA HandledOrdered ==
    ASSUME TypeInv, TypeInv', Ordered, Handles, DocumentsFollow'
    PROVE Ordered'
<1>1. channel \in Seq(Messages) /\ channel # << >> /\ channel' = Tail(channel)
  BY DEF TypeInv, Handles
<1>2. /\ Len(channel) \in Nat /\ Len(channel) \in 1 .. Len(channel) /\ 1 \in 1 .. Len(channel)
      /\ Len(channel') = Len(channel) - 1
      /\ \A i \in 1 .. Len(channel') :
            /\ i + 1 \in 1 .. Len(channel)
            /\ channel'[i] = channel[i + 1]
            /\ i \in 1 .. Len(channel)
            /\ (i + 1) - 1 = i
            /\ i + 1 # 1
            /\ i \in Nat
      /\ \A i \in 1 .. Len(channel) : channel[i] \in Messages
  BY <1>1
<1>3. ASSUME NEW k \in 1 .. Len(channel), NEW uri \in Uris, NEW text,
             Holds(channel, overlays, k, uri, text)
      PROVE Holds(channel', overlays', k - 1, uri, text)
  <2>1. overlays'[uri] = IF Edits(channel[1], uri) THEN Content(channel[1]) ELSE overlays[uri]
    BY DEF Handles, Incoming
  <2> QED
    BY <1>1, <1>3, <2>1, TailHolds
<1>4. BuffersFollow'
  <2> SUFFICES ASSUME NEW uri \in Uris
               PROVE Holds(channel', overlays', Len(channel'), uri, editor[uri])
    BY DEF BuffersFollow, Handles
  <2>1. Holds(channel, overlays, Len(channel), uri, editor[uri])
    BY DEF Ordered, BuffersFollow
  <2> QED
    BY <1>2, <1>3, <2>1
<1>5. ASSUME NEW i \in 1 .. Len(channel'), NEW uri \in Uris, NEW text,
             Holds(channel, overlays, (i + 1) - 1, uri, text)
      PROVE Holds(channel', overlays', i - 1, uri, text)
  BY <1>2, <1>3, <1>5
<1>6. ChangesFollow'
  <2> SUFFICES ASSUME NEW i \in 1 .. Len(channel'),
                      channel'[i].method = "didChange", channel'[i].text # "out of sync"
               PROVE \E text \in Texts : Holds(channel', overlays', i - 1, channel'[i].uri, text)
    BY DEF ChangesFollow
  <2>1. i + 1 \in 1 .. Len(channel) /\ channel'[i] = channel[i + 1]
    BY <1>2
  <2>2. channel[i + 1].uri \in Uris
    <3>1. channel[i + 1] \in Messages
      BY <1>2, <2>1
    <3> QED
      BY <2>1, <3>1, MessageFields DEF DocumentMethods
  <2>3. PICK text \in Texts : Holds(channel, overlays, (i + 1) - 1, channel[i + 1].uri, text)
    BY <2>1 DEF Ordered, ChangesFollow
  <2> QED
    BY <1>5, <2>1, <2>2, <2>3
<1>7. ASSUME NEW i \in 1 .. Len(channel'), NEW id \in Ids, Requests(channel'[i], id)
      PROVE Requests(channel[i + 1], id) /\ asked'[id] = asked[id]
  <2>1. i + 1 \in 1 .. Len(channel) /\ Requests(channel[i + 1], id) /\ i + 1 # 1
    BY <1>2, <1>7
  <2>2. ~Requests(Incoming, id)
    BY <1>2, <2>1 DEF Ordered, OneRequestPerId, Incoming
  <2> QED
    BY <2>1, <2>2 DEF Handles
<1>8. RequestsFollow'
  <2> SUFFICES ASSUME NEW i \in 1 .. Len(channel'), NEW id \in Ids, Requests(channel'[i], id)
               PROVE /\ asked'[id] # NoRequest
                     /\ Holds(channel', overlays', i - 1, asked'[id].uri, asked'[id].text)
    BY DEF RequestsFollow, Requests
  <2>1. i + 1 \in 1 .. Len(channel) /\ Requests(channel[i + 1], id) /\ asked'[id] = asked[id]
    BY <1>2, <1>7
  <2>2. /\ asked[id] # NoRequest
        /\ Holds(channel, overlays, (i + 1) - 1, asked[id].uri, asked[id].text)
    BY <2>1 DEF Ordered, RequestsFollow
  <2>3. asked[id].uri \in Uris
    BY <2>2 DEF TypeInv, TypeOK
  <2> QED
    BY <1>5, <2>1, <2>2, <2>3
<1>9. OneRequestPerId'
  <2> SUFFICES ASSUME NEW i \in 1 .. Len(channel'), NEW j \in 1 .. Len(channel'), NEW id \in Ids,
                      Requests(channel'[i], id), Requests(channel'[j], id)
               PROVE i = j
    BY DEF OneRequestPerId, Requests
  <2>1. i + 1 = j + 1
    BY <1>2, <1>7 DEF Ordered, OneRequestPerId
  <2> QED
    BY <1>2, <2>1
<1> QED
  BY <1>4, <1>6, <1>8, <1>9 DEF Ordered
-----------------------------------------------------------------------------
\* IncrementalWorkspace indexes an open document from its overlay, whichever
\* document the event is about.
LEMMA UpdatedFollows ==
    ASSUME TypeInv, DocumentsFollow, NEW uri \in Uris, overlays' \in Buffers,
           \A other \in Uris : other # uri => overlays'[other] = overlays[other],
           documents' = Updated(uri, overlays')
    PROVE DocumentsFollow'
<1> SUFFICES ASSUME NEW project \in ProjectUris, overlays'[project] # NotOpen
             PROVE documents'[project] = overlays'[project]
  BY DEF DocumentsFollow
<1>1. documents'[project] = IF documents = NotBuilt \/ project = uri
                            THEN TextOf(project, overlays') ELSE documents[project]
  BY DEF Updated
<1>2. TextOf(project, overlays') = overlays'[project]
  BY DEF TextOf
<1>3. project # uri => documents[project] = overlays'[project]
  BY ServerAssumption DEF DocumentsFollow
<1> QED
  BY <1>1, <1>2, <1>3

LEMMA HeadIndex ==
    ASSUME NEW queue \in Seq(Messages), queue # << >>
    PROVE 1 \in 1 .. Len(queue) /\ 1 - 1 = 0
OBVIOUS

\* The head of the channel, where it is a change the editor made, finds its document open.
LEMMA ChangeFindsOpen ==
    ASSUME TypeInv, Ordered, Take("didChange"), Incoming.text # "out of sync"
    PROVE overlays[Incoming.uri] # NotOpen
<1>1. 1 \in 1 .. Len(channel) /\ 1 - 1 = 0
  BY HeadIndex DEF TypeInv, Take
<1>2. channel[1].method = "didChange" /\ channel[1].text # "out of sync"
  BY DEF Take, Incoming
<1>3. PICK found \in Texts : Holds(channel, overlays, 0, channel[1].uri, found)
  BY <1>1, <1>2 DEF Ordered, ChangesFollow
<1>4. found = overlays[channel[1].uri]
  <2> DEFINE uri == channel[1].uri
  <2>1. Holds(channel, overlays, 0, uri, found)
    BY <1>3
  <2> HIDE DEF uri
  <2>2. found = overlays[uri]
    BY <2>1, HoldsNow
  <2> QED
    BY <2>2 DEF uri
<1>5. NotOpen \notin Texts
  BY DEF Texts, NotOpen
<1> QED
  BY <1>4, <1>5 DEF Incoming

LEMMA DocumentsOrdered ==
    ASSUME TypeInv, TypeInv', Ordered, DidOpen \/ DidChange \/ DidClose \/ DidChangeWatchedFiles
    PROVE Ordered'
<1>1. overlays \in Buffers /\ overlays' \in Buffers /\ DocumentsFollow
  BY DEF TypeInv, TypeOK, Buffers, Ordered
<1>2. ASSUME NEW method \in DocumentMethods, Take(method)
      PROVE /\ Incoming.uri \in Uris
            /\ Incoming.method = method
            /\ channel # << >> /\ channel' = Tail(channel) /\ editor' = editor
            /\ \A id \in Ids : ~Requests(Incoming, id)
  <2>1. Incoming.uri \in Uris /\ Incoming.method = method
    BY <1>2, TakeTypes, MessageFields DEF Take
  <2> QED
    BY <1>2, <2>1 DEF Take, Requests, DocumentMethods
<1>3. CASE DidOpen
  <2>1. Take("didOpen") /\ UNCHANGED asked
    BY <1>3 DEF DidOpen, Reschedule
  <2>2. /\ overlays' = [overlays EXCEPT ![Incoming.uri] = Incoming.text]
        /\ documents' = Updated(Incoming.uri, overlays')
    BY <1>3 DEF DidOpen
  <2>3. Handles
    BY <1>1, <1>2, <2>1, <2>2 DEF Handles, Edits, Content, Buffers, DocumentMethods
  <2>4. DocumentsFollow'
    BY <1>1, <1>2, <2>1, <2>2, UpdatedFollows DEF Buffers, DocumentMethods
  <2> QED
    BY <2>3, <2>4, HandledOrdered
<1>4. CASE DidChange
  <2>1. Take("didChange") /\ UNCHANGED asked
    BY <1>4 DEF DidChange, Reschedule, Reject
  <2>2. CASE /\ Incoming.text # "out of sync"
             /\ overlays' = [overlays EXCEPT ![Incoming.uri] = Incoming.text]
             /\ documents' = Updated(Incoming.uri, overlays')
    <3>1. Handles
      BY <1>1, <1>2, <2>1, <2>2 DEF Handles, Edits, Content, Buffers, DocumentMethods
    <3>2. DocumentsFollow'
      BY <1>1, <1>2, <2>1, <2>2, UpdatedFollows DEF Buffers, DocumentMethods
    <3> QED
      BY <3>1, <3>2, HandledOrdered
  <2>3. CASE /\ overlays[Incoming.uri] = NotOpen \/ Incoming.text = "out of sync"
             /\ UNCHANGED <<overlays, documents>>
    <3>1. Incoming.text = "out of sync"
      BY <2>1, <2>3, ChangeFindsOpen
    <3>2. Handles
      BY <1>2, <2>1, <2>3, <3>1 DEF Handles, Edits, DocumentMethods
    <3>3. DocumentsFollow'
      BY <2>3 DEF Ordered, DocumentsFollow
    <3> QED
      BY <3>2, <3>3, HandledOrdered
  <2> QED
    BY <1>4, <2>2, <2>3 DEF DidChange, Reject
<1>5. CASE DidClose
  <2>1. Take("didClose") /\ UNCHANGED asked
    BY <1>5 DEF DidClose, Reschedule, Reject
  <2>2. CASE /\ overlays' = [overlays EXCEPT ![Incoming.uri] = NotOpen]
             /\ documents' = Updated(Incoming.uri, overlays')
    <3>1. Handles
      BY <1>1, <1>2, <2>1, <2>2 DEF Handles, Edits, Content, Buffers, DocumentMethods
    <3>2. DocumentsFollow'
      BY <1>1, <1>2, <2>1, <2>2, UpdatedFollows DEF Buffers, DocumentMethods
    <3> QED
      BY <3>1, <3>2, HandledOrdered
  <2>3. CASE overlays[Incoming.uri] = NotOpen /\ UNCHANGED <<overlays, documents>>
    <3>1. Handles
      BY <1>2, <2>1, <2>3 DEF Handles, Edits, Content, DocumentMethods
    <3>2. DocumentsFollow'
      BY <2>3 DEF Ordered, DocumentsFollow
    <3> QED
      BY <3>1, <3>2, HandledOrdered
  <2> QED
    BY <1>5, <2>2, <2>3 DEF DidClose, Reject
<1>6. CASE DidChangeWatchedFiles
  <2>1. Take("didChangeWatchedFiles") /\ UNCHANGED asked
    BY <1>6 DEF DidChangeWatchedFiles, Reschedule
  <2>2. overlays' = overlays /\ documents' = Updated(Incoming.uri, overlays')
    BY <1>6 DEF DidChangeWatchedFiles
  <2>3. Handles
    BY <1>2, <2>1, <2>2 DEF Handles, Edits, DocumentMethods
  <2>4. DocumentsFollow'
    BY <1>1, <1>2, <2>1, <2>2, UpdatedFollows DEF DocumentMethods
  <2> QED
    BY <2>3, <2>4, HandledOrdered
<1> QED
  BY <1>3, <1>4, <1>5, <1>6

\* Everything else the loop takes leaves the documents alone.
LEMMA OthersOrdered ==
    ASSUME TypeInv, TypeInv', Ordered,
           \/ DropCanceled \/ CancelRequest \/ Stop \/ Fail
           \/ Answer("hover") \/ Answer("executeCommand")
    PROVE Ordered'
<1>1. UNCHANGED <<overlays, documents>>
  BY DEF DropCanceled, CancelRequest, Stop, Fail, Answer
<1>2. PICK method \in {"hover", "executeCommand", "cancelRequest", "exit", "end of input", "unreadable"} :
        Take(method)
  BY DEF DropCanceled, CancelRequest, Stop, Fail, Answer
<1>3. \A uri : ~Edits(Incoming, uri)
  BY <1>2 DEF Take, Edits
<1>4. \A id \in Ids : Requests(Incoming, id) \/ asked'[id] = asked[id]
  BY DEF DropCanceled, CancelRequest, Stop, Fail, Answer, Take, Requests, TypeInv, TypeOK
<1>5. Handles
  BY <1>1, <1>2, <1>3, <1>4 DEF Take, Handles
<1>6. DocumentsFollow'
  BY <1>1 DEF Ordered, DocumentsFollow
<1> QED
  BY <1>5, <1>6, HandledOrdered

LEMMA QuietOrdered ==
    ASSUME Ordered, UNCHANGED <<editor, asked, channel, overlays, documents>>
    PROVE Ordered'
BY DEF Ordered, BuffersFollow, ChangesFollow, RequestsFollow, OneRequestPerId, DocumentsFollow

LEMMA EditorOrdered == ASSUME TypeInv, Ordered, Editor PROVE Ordered'
<1>1. editor \in Buffers
  BY DEF TypeInv, TypeOK, Buffers
<1>2. ASSUME NEW uri \in Uris, NEW text \in Texts, SendOpen(uri, text) PROVE Ordered'
  <2> DEFINE message == [method |-> "didOpen", uri |-> uri, text |-> text]
  <2>1. message \in Messages /\ Send(message)
    BY <1>2 DEF Messages, SendOpen
  <2>2. Matches(message)
    BY <1>1, <1>2 DEF SendOpen, Matches, Edits, Content, Requests, Buffers
  <2> QED
    BY <2>1, <2>2, SendOrdered
<1>3. ASSUME NEW uri \in Uris, NEW text \in Texts, SendChange(uri, text) PROVE Ordered'
  <2> DEFINE message == [method |-> "didChange", uri |-> uri, text |-> text]
  <2>1. message \in Messages /\ Send(message)
    BY <1>3 DEF Messages, SendChange
  <2>2. text # "out of sync"
    BY DEF Texts
  <2>3. editor[uri] \in Texts
    BY <1>1, <1>3 DEF SendChange, Buffers
  <2>4. Matches(message)
    BY <1>1, <1>3, <2>2, <2>3 DEF SendChange, Matches, Edits, Content, Requests, Buffers
  <2> QED
    BY <2>1, <2>4, SendOrdered
<1>4. ASSUME NEW uri \in Uris, SendOutOfSync(uri) PROVE Ordered'
  <2> DEFINE message == [method |-> "didChange", uri |-> uri, text |-> "out of sync"]
  <2>1. message \in Messages /\ Send(message)
    BY <1>4 DEF Messages, SendOutOfSync
  <2>2. Matches(message)
    BY <1>4 DEF SendOutOfSync, Matches, Edits, Requests, client
  <2> QED
    BY <2>1, <2>2, SendOrdered
<1>5. ASSUME NEW uri \in Uris, SendClose(uri) PROVE Ordered'
  <2> DEFINE message == [method |-> "didClose", uri |-> uri]
  <2>1. message \in Messages /\ Send(message)
    BY <1>5 DEF Messages, SendClose
  <2>2. Matches(message)
    BY <1>1, <1>5 DEF SendClose, Matches, Edits, Content, Requests, Buffers
  <2> QED
    BY <2>1, <2>2, SendOrdered
<1>6. ASSUME NEW uri \in Uris, NEW text \in Texts \cup {Absent}, FileChange(uri, text) PROVE Ordered'
  <2> DEFINE message ==
        [method |-> "didChangeWatchedFiles", uri |-> uri, deleted |-> text = Absent]
  <2>1. message \in Messages /\ Send(message)
    BY <1>6 DEF Messages, FileChange
  <2>2. Matches(message)
    BY <1>6 DEF FileChange, Matches, Edits, Requests
  <2> QED
    BY <2>1, <2>2, SendOrdered
<1>7. ASSUME NEW id \in Ids, NEW uri \in Uris, NEW method \in {"hover", "executeCommand"},
             SendRequest(id, method, uri)
      PROVE Ordered'
  <2> DEFINE message == [method |-> method, id |-> id]
  <2>1. message \in Messages /\ Send(message)
    BY <1>7 DEF Messages, SendRequest
  <2>2. editor[uri] \in Texts
    BY <1>1, <1>7 DEF SendRequest, Buffers
  <2>3. [uri |-> uri, text |-> editor[uri]] # NoRequest
    BY <2>2 DEF Texts, NoRequest
  <2>4. /\ asked[id] = NoRequest
        /\ asked'[id] = [uri |-> uri, text |-> editor[uri]]
        /\ \A other \in Ids : other # id => asked'[other] = asked[other]
        /\ editor' = editor
    BY <1>7 DEF SendRequest, CanAsk, TypeInv, TypeOK
  <2>5. \A other : Requests(message, other) <=> other = id
    BY DEF Requests
  <2>6. \A other : ~Edits(message, other)
    BY DEF Edits
  <2>7. message.method # "didChange"
    OBVIOUS
  <2>8. asked'[id] # NoRequest /\ asked'[id].uri = uri /\ asked'[id].text = editor[uri]
    BY <2>3, <2>4
  <2> HIDE DEF message
  <2>9. Matches(message)
    BY <2>4, <2>5, <2>6, <2>7, <2>8 DEF Matches
  <2> QED
    BY <2>1, <2>9, SendOrdered
<1>8. ASSUME NEW id \in Ids, SendCancel(id) PROVE Ordered'
  <2> DEFINE message == [method |-> "cancelRequest", id |-> id]
  <2>1. message \in Messages /\ Send(message)
    BY <1>8 DEF Messages, SendCancel
  <2>2. Matches(message)
    BY <1>8 DEF SendCancel, Matches, Edits, Requests, client
  <2> QED
    BY <2>1, <2>2, SendOrdered
<1>9. ASSUME NEW method \in {"exit", "end of input", "unreadable"}, SendLast(method) PROVE Ordered'
  <2> DEFINE message == [method |-> method]
  <2>1. message \in Messages /\ Send(message)
    BY <1>9 DEF Messages, SendLast
  <2>2. Matches(message)
    BY <1>9 DEF SendLast, Matches, Edits, Requests, client
  <2> QED
    BY <2>1, <2>2, SendOrdered
<1> QED
  BY <1>2, <1>3, <1>4, <1>5, <1>6, <1>7, <1>8, <1>9 DEF Editor

LEMMA InitOrdered == Init => Ordered
<1> SUFFICES ASSUME Init PROVE Ordered
  OBVIOUS
<1>1. channel = << >> /\ Len(channel) = 0 /\ 1 .. Len(channel) = {}
  BY DEF Init
<1>2. BuffersFollow
  BY <1>1, HoldsNow DEF Init, BuffersFollow
<1>3. DocumentsFollow
  BY ServerAssumption DEF Init, DocumentsFollow
<1> QED
  BY <1>1, <1>2, <1>3 DEF Ordered, ChangesFollow, RequestsFollow, OneRequestPerId

LEMMA StepOrdered == TypeInv /\ TypeInv' /\ Ordered /\ [Next]_vars => Ordered'
<1> SUFFICES ASSUME TypeInv, TypeInv', Ordered, [Next]_vars PROVE Ordered'
  OBVIOUS
<1>1. CASE UNCHANGED vars \/ FlushDueTimeout \/ Tick
  BY <1>1, QuietOrdered DEF vars, FlushDueTimeout, Tick, client
<1> QED
  BY <1>1, DocumentsOrdered, OthersOrdered, EditorOrdered DEF Next, Serve

\* An answer is given from the documents of the step, and those have the text that
\* was asked about.
LEMMA AnswerFromText ==
    ASSUME TypeInv, Ordered, [Next]_vars, NEW id \in Ids,
           asked[id] # NoRequest, asked'[id] = NoRequest, asked[id].uri \in ProjectUris
    PROVE documents[asked[id].uri] = asked[id].text
<1>1. ASSUME Editor PROVE FALSE
  <2>1. ASSUME NEW other \in Ids, NEW uri \in Uris, NEW method, SendRequest(other, method, uri)
        PROVE FALSE
    <3>1. other # id /\ asked' = [asked EXCEPT ![other] = [uri |-> uri, text |-> editor[uri]]]
      BY <2>1 DEF SendRequest, CanAsk
    <3>2. asked'[id] = asked[id]
      BY <3>1 DEF TypeInv, TypeOK
    <3> QED
      BY <3>2
  <2> QED
    BY <1>1, <2>1 DEF Editor, SendOpen, SendChange, SendOutOfSync, SendClose, FileChange,
                      SendCancel, SendLast, client
<1>2. PICK method \in {"hover", "executeCommand"} : Answer(method)
  BY <1>1 DEF Next, Serve, DidOpen, DidChange, DidClose, DidChangeWatchedFiles, DropCanceled,
              CancelRequest, Stop, Fail, FlushDueTimeout, Tick, Reschedule, Reject, client, vars
<1>3. Take(method) /\ asked' = [asked EXCEPT ![Incoming.id] = NoRequest]
  BY <1>2 DEF Answer
<1>4. Incoming.id = id
  BY <1>3 DEF TypeInv, TypeOK
<1>5. Requests(channel[1], id)
  BY <1>3, <1>4 DEF Take, Requests, Incoming
<1>6. 1 \in 1 .. Len(channel) /\ 1 - 1 = 0
  BY <1>3, HeadIndex DEF TypeInv, Take
<1>7. Holds(channel, overlays, 0, asked[id].uri, asked[id].text)
  BY <1>5, <1>6 DEF Ordered, RequestsFollow
<1>8. asked[id].text = overlays[asked[id].uri]
  BY <1>7, HoldsNow
<1>9. asked[id].text \in Texts /\ NotOpen \notin Texts
  BY DEF TypeInv, TypeOK, Texts, NotOpen
<1> QED
  BY <1>8, <1>9 DEF Ordered, DocumentsFollow
-----------------------------------------------------------------------------
\* The order of the channel is the order of the editor: whatever is still on its way,
\* the server's buffers will be the editor's when each message is handled, and every
\* request will find the text it was asked about.
THEOREM ServerFollowsEditor == Spec => []Ordered
<1>1. Init => Ordered
  BY InitOrdered
<1>2. TypeInv /\ TypeInv' /\ Ordered /\ [Next]_vars => Ordered'
  BY StepOrdered
<1> QED
  BY <1>1, <1>2, ChannelTyped, PTL DEF Spec

\* The loop handles one message at a time and answers a request at once, from documents
\* that all earlier edits have reached and no later one has.
THEOREM AnsweredFromText == Spec => AnsweredInOrder
<1> DEFINE FromText(id) ==
        (asked[id] # NoRequest /\ asked'[id] = NoRequest /\ asked[id].uri \in ProjectUris) =>
            documents[asked[id].uri] = asked[id].text
<1>1. TypeInv /\ Ordered /\ [Next]_vars => [\A id \in Ids : FromText(id)]_vars
  BY AnswerFromText
<1> QED
  BY <1>1, ChannelTyped, ServerFollowsEditor, PTL DEF Spec, AnsweredInOrder
=============================================================================
