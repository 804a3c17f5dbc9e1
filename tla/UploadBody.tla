------------------------------ MODULE UploadBody ------------------------------
(***************************************************************************)
(* The bytes of one upload: MaxBodySizeMiddleware counts what comes off    *)
(* the wire, the framework parses a form before the handler runs or hands  *)
(* the messages on, and store_upload counts again what it stores, against  *)
(* the limit of the format.  The row is committed before and after, so     *)
(* another request may delete the dataset between any two steps.  A        *)
(* message is its size.                                                    *)
(***************************************************************************)
EXTENDS Integers, Sequences, FiniteSets

CONSTANTS
    Uploads,           \* the requests clients send
    MaxUpload,         \* settings.max_upload_bytes
    MaxExcel,          \* settings.excel_max_bytes
    ChunkBytes         \* settings.upload_chunk_bytes

\* declared is the Content-Length, {} for a chunked body.  envelope is what a form adds
\* to the file in it.
Upload ==
    [route : {"form", "raw"}, declared : SUBSET Nat, messages : Seq(Nat), envelope : Nat,
     breaksOff : BOOLEAN, format : {"csv", "xlsx", "unsupported"}]

ASSUME UploadAssumption ==
    /\ {MaxUpload, MaxExcel} \subseteq Nat /\ ChunkBytes \in Nat \ {0}
    /\ \A u \in Uploads :
          /\ u \in Upload /\ Cardinality(u.declared) <= 1
          /\ u.route = "raw" => u.envelope = 0

VARIABLES
    wire,              \* where the request is
    upload,            \* {} or the request
    heard,             \* messages received
    received,          \* received_total of the middleware
    handed,            \* bytes passed on to the application
    size,              \* bytes given to storage.save_stream
    object,            \* the stored object: -1 is none
    row,               \* the dataset row: none, its upload status, or gone
    replies,           \* http.response.start messages, by status
    deleter            \* where another request that deletes the dataset is

meter == <<heard, received, handed>>
bodyVars == <<wire, upload, meter, size, object, row, replies, deleter>>

Sent == CHOOSE u \in upload : TRUE
Limit == IF Sent.format = "xlsx" THEN MaxExcel ELSE MaxUpload
SumOfSizes(sizes) ==
    LET sum[k \in 0..Len(sizes)] == IF k = 0 THEN 0 ELSE sum[k - 1] + sizes[k]
    IN  sum[Len(sizes)]
FileSize(u) == SumOfSizes(u.messages) - u.envelope

BodyInit ==
    /\ wire = "idle" /\ upload = {} /\ heard = 0 /\ received = 0 /\ handed = 0
    /\ size = 0 /\ object = -1 /\ row = "none" /\ replies = <<>> /\ deleter = "none"

Reply(status) == replies' = Append(replies, status) /\ wire' = "done"

\* The early rejection, of a length that is declared.
Submit(u) ==
    /\ wire = "idle"
    /\ upload' = {u}
    /\ IF \E n \in u.declared : n > MaxUpload THEN Reply(413)
       ELSE wire' = (IF u.route = "form" THEN "parse" ELSE "route") /\ UNCHANGED replies
    /\ UNCHANGED <<meter, size, object, row, deleter>>

\* counting_receive.
\* Mutant: the message alone is compared with the limit.
CountLast(message) == message
Count(message) == received + message
TooLarge == received' > MaxUpload
Receive ==
    /\ heard < Len(Sent.messages)
    /\ heard' = heard + 1
    /\ received' = Count(Sent.messages[heard + 1])
    /\ handed' = IF TooLarge THEN handed ELSE handed + Sent.messages[heard + 1]

\* The framework reads a whole form first.  What goes wrong meanwhile, the limit of
\* the middleware and a client that goes away included, it reports as a body it could
\* not parse.
ParseForm ==
    /\ wire = "parse"
    /\ Receive
    /\ IF TooLarge THEN Reply(400) ELSE UNCHANGED <<wire, replies>>
    /\ UNCHANGED <<upload, size, object, row, deleter>>
EndForm ==
    /\ wire = "parse" /\ heard = Len(Sent.messages)
    /\ IF Sent.breaksOff THEN Reply(400) ELSE wire' = "route" /\ UNCHANGED replies
    /\ UNCHANGED <<upload, meter, size, object, row, deleter>>

\* resolve_format, then the row.
Accept ==
    /\ wire = "route"
    /\ IF Sent.format = "unsupported" THEN Reply(415) /\ UNCHANGED row
       ELSE wire' = "begin" /\ row' = "pending" /\ UNCHANGED replies
    /\ UNCHANGED <<upload, meter, size, object, deleter>>

\* A commit of store_upload.  Of a row deleted meanwhile it raises.
Commit(status, next) ==
    IF row = "gone" THEN Reply(500) /\ UNCHANGED row
    ELSE row' = status /\ wire' = next /\ UNCHANGED replies
BeginStream ==
    /\ wire = "begin"
    /\ Commit("uploading", "store")
    /\ UNCHANGED <<upload, meter, size, object, deleter>>

\* _fail_upload: storage has kept nothing, the row is FAILED.  That the row is gone it
\* may find as it reads it, or as its commit raises.
Abandon(status) ==
    /\ row' = (IF row = "gone" THEN "gone" ELSE "failed")
    /\ \/ Reply(status)
       \/ row = "gone" /\ Reply(500)

\* One chunk more for storage: of the spooled file, or straight off the wire, where the
\* middleware's exception passes through store_upload on its way back.
StoreChunk(bytes) ==
    /\ size' = size + bytes
    /\ IF size' > Limit THEN Abandon(413) ELSE UNCHANGED <<wire, row, replies>>
StoreSpooled ==
    /\ wire = "store" /\ Sent.route = "form" /\ size < FileSize(Sent)
    /\ StoreChunk(IF FileSize(Sent) - size < ChunkBytes THEN FileSize(Sent) - size ELSE ChunkBytes)
    /\ UNCHANGED <<upload, meter, object, deleter>>
StoreMessage ==
    /\ wire = "store" /\ Sent.route = "raw"
    /\ Receive
    /\ IF TooLarge THEN Abandon(413) /\ UNCHANGED size
       ELSE StoreChunk(Sent.messages[heard + 1])
    /\ UNCHANGED <<upload, object, deleter>>

\* The client goes away, or the disk is full.
StoreFails ==
    /\ wire = "store"
    /\ Abandon(500)
    /\ UNCHANGED <<upload, meter, size, object, deleter>>

\* The stream is over: the object is there at once.  An empty one is deleted again, and
\* if that raises the row is left as it is.
EndStream ==
    /\ wire = "store"
    /\ IF Sent.route = "form" THEN size = FileSize(Sent)
       ELSE heard = Len(Sent.messages) /\ ~Sent.breaksOff
    /\ \/ size > 0 /\ object' = size /\ wire' = "commit" /\ UNCHANGED <<row, replies>>
       \/ size = 0 /\ Abandon(400) /\ UNCHANGED object
       \/ size = 0 /\ object' = 0 /\ Reply(500) /\ UNCHANGED row
    /\ UNCHANGED <<upload, meter, size, deleter>>

\* The row is given the key of the object and is STORED.
CommitStored ==
    /\ wire = "commit"
    /\ Commit("stored", "finalise")
    /\ UNCHANGED <<upload, meter, size, object, deleter>>

\* _finalise.  Whether there is an equal file, and whether one is rejected, is left open;
\* a row deleted meanwhile makes the refresh raise.
Finalise ==
    /\ wire = "finalise"
    /\ \/ row # "gone" /\ Reply(201)
       \/ row = "gone" /\ Reply(500)
       \/ wire' = "unlink" /\ UNCHANGED replies
    /\ UNCHANGED <<upload, meter, size, object, row, deleter>>

\* delete_dataset unlinks the object, where an exception is logged, and drops the row:
\* of a duplicate in the same request, of any row in a request of its own, which knows
\* the key if the row had one as it was read.
UnlinkDuplicate ==
    /\ wire = "unlink" /\ wire' = "drop"
    /\ object' \in {-1, object}
    /\ UNCHANGED <<upload, meter, size, row, replies, deleter>>
DropDuplicate ==
    /\ wire = "drop"
    /\ row' = "gone" /\ Reply(409)
    /\ UNCHANGED <<upload, meter, size, object, deleter>>
BeginDelete ==
    /\ deleter = "none" /\ row \notin {"none", "gone"}
    /\ deleter' = IF row = "stored" THEN "unlink" ELSE "drop"
    /\ UNCHANGED <<wire, upload, meter, size, object, row, replies>>
UnlinkObject ==
    /\ deleter = "unlink" /\ deleter' = "drop"
    /\ object' \in {-1, object}
    /\ UNCHANGED <<wire, upload, meter, size, row, replies>>
DropRow ==
    /\ deleter = "drop" /\ deleter' = "done"
    /\ row' = "gone"
    /\ UNCHANGED <<wire, upload, meter, size, object, replies>>

BodyNext ==
    \/ \E u \in Uploads : Submit(u)
    \/ ParseForm \/ EndForm \/ Accept \/ BeginStream
    \/ StoreSpooled \/ StoreMessage \/ StoreFails \/ EndStream
    \/ CommitStored \/ Finalise \/ UnlinkDuplicate \/ DropDuplicate
    \/ BeginDelete \/ UnlinkObject \/ DropRow
BodySpec == BodyInit /\ [][BodyNext]_bodyVars

-----------------------------------------------------------------------------
\* However the body is cut into messages and whatever length it declares, and whoever
\* deletes the dataset meanwhile: the application is never handed more than the limit and
\* the client gets one answer; what storage keeps is the whole file, within the limit of
\* its format, or nothing or an empty object; a row that says STORED has its object until
\* a delete comes to unlink it, and its request is answered 201, as no other is; and what
\* a finished request leaves in storage without a STORED row is empty, unless the row
\* was deleted.
UploadIsWhole ==
    /\ handed <= MaxUpload
    /\ Len(replies) = (IF wire = "done" THEN 1 ELSE 0)
    /\ object > 0 => object = FileSize(Sent) /\ object <= Limit /\ ~Sent.breaksOff
    /\ row = "stored" /\ "drop" \notin {wire, deleter} => object > 0
    /\ row = "stored" /\ wire = "done" => replies = <<201>>
    /\ replies = <<201>> => row \in {"stored", "gone"}
    /\ wire = "done" /\ object > 0 => row \in {"stored", "gone"}
=============================================================================
